---- MODULE Spec2Model ----
(***************************************************************************)
(* Model of the core updater list (core_updater_list.c): the entry list,   *)
(* the entry builders, the build-server and play-feature-delivery parsers, *)
(* the WizModl grouping comparator and the dual header injection.          *)
(*                                                                         *)
(* C strings are TLA+ strings; a character is a string of length 1.  A     *)
(* NULL char pointer is the value NULL below, which no C string equals.    *)
(* A uint32_t is kept as a pair <<high 16 bits, low 16 bits>> so that      *)
(* checksums such as 0xdeadbeef keep their full width.                     *)
(***************************************************************************)
EXTENDS Integers, Sequences, FiniteSets, TLC

(***************************************************************************)
(* Bounds of the explored inputs.                                          *)
(***************************************************************************)
\* largest number of lines in one build-server listing
MaxLines == 2
\* largest number of file names in one play feature delivery listing
MaxCores == 2

(***************************************************************************)
(* C string helpers.                                                       *)
(***************************************************************************)
\* the NULL char pointer (the text is never produced by any operation)
NULL == "<NULL>"

\* printable ASCII in code order: codes 32..95 and codes 97..126
AsciiLo == " !\"#$%&'()*+,-./0123456789:;<=>?@ABCDEFGHIJKLMNOPQRSTUVWXYZ[\\]^_"

AsciiHi == "abcdefghijklmnopqrstuvwxyz{|}~"

HexDigits == "0123456789abcdef"

CharAt(s, i) == SubSeq(s, i, i)

Min(S) == CHOOSE m \in S : \A k \in S : m <= k

\* position of the first occurrence of character c in s at or after i, 0 if none
IndexFrom(s, c, i) ==
   LET hits == {j \in i..Len(s) : CharAt(s, j) = c}
   IN  IF hits = {} THEN 0 ELSE Min(hits)

\* position of the last occurrence of character c in s, 0 if none (strrchr)
strrchr(s, c) ==
   LET hits == {j \in 1..Len(s) : CharAt(s, j) = c}
   IN  IF hits = {} THEN 0 ELSE CHOOSE m \in hits : \A k \in hits : k <= m

\* ASCII code of a character
Ord(c) ==
   IF c = "\n" THEN 10
   ELSE IF IndexFrom(AsciiLo, c, 1) # 0 THEN 31 + IndexFrom(AsciiLo, c, 1)
   ELSE 96 + IndexFrom(AsciiHi, c, 1)

tolower(c) ==
   LET lower(o) == IF o >= 65 /\ o <= 90 THEN CharAt(AsciiHi, o - 64) ELSE c
   IN  lower(Ord(c))

isdigit(c) == Ord(c) >= 48 /\ Ord(c) <= 57

isxdigit(c) == IndexFrom(HexDigits, tolower(c), 1) # 0

isalnum(c) == isdigit(c) \/ (Ord(tolower(c)) >= 97 /\ Ord(tolower(c)) <= 122)

string_is_empty(s) == s = NULL \/ s = ""

string_is_equal(a, b) == a # NULL /\ b # NULL /\ a = b

RECURSIVE strcasecmp_from(_, _, _)
strcasecmp_from(a, b, i) ==
   IF i > Len(a) /\ i > Len(b) THEN 0
   ELSE IF i > Len(a) THEN 0 - Ord(tolower(CharAt(b, i)))
   ELSE IF i > Len(b) THEN Ord(tolower(CharAt(a, i)))
   ELSE IF CharAt(a, i) = CharAt(b, i) THEN strcasecmp_from(a, b, i + 1)
   ELSE LET d == Ord(tolower(CharAt(a, i))) - Ord(tolower(CharAt(b, i)))
        IN  IF d # 0 THEN d ELSE strcasecmp_from(a, b, i + 1)

\* case-insensitive comparison; the sign of the result is what callers use
strcasecmp(a, b) == strcasecmp_from(a, b, 1)

\* TRUE iff needle occurs in haystack (strstr(...) != NULL)
strstr(haystack, needle) ==
   \E i \in 1..(Len(haystack) - Len(needle) + 1) :
      SubSeq(haystack, i, i + Len(needle) - 1) = needle

\* number of occurrences of character c in s
string_count_occurrences_single_character(s, c) ==
   Cardinality({j \in 1..Len(s) : CharAt(s, j) = c})

\* every token strtok_r yields for s with the single delimiter d, in order:
\* leading delimiters are skipped, a token runs to the next delimiter
RECURSIVE strtok_from(_, _, _)
strtok_from(s, d, i) ==
   LET starts == {j \in i..Len(s) : CharAt(s, j) # d}
   IN  IF starts = {} THEN <<>>
       ELSE LET b == Min(starts)
                e == IndexFrom(s, d, b)
                stop == IF e = 0 THEN Len(s) + 1 ELSE e
            IN  <<SubSeq(s, b, stop - 1)>> \o strtok_from(s, d, stop + 1)

strtok_r(s, d) == strtok_from(s, d, 1)

\* the k-th token, NULL when strtok_r has run out
TokAt(toks, k) == IF k <= Len(toks) THEN toks[k] ELSE NULL

(***************************************************************************)
(* Unsigned conversions.                                                   *)
(***************************************************************************)
U32Zero == <<0, 0>>

\* (acc * base + digit) modulo 2^32, on the 16-bit halves
U32Step(acc, base, digit) ==
   LET lo == acc[2] * base + digit
       hi == acc[1] * base + (lo \div 65536)
   IN  <<hi % 65536, lo % 65536>>

RECURSIVE U32Digits(_, _, _, _)
U32Digits(s, base, i, acc) ==
   IF i > Len(s) THEN acc
   ELSE U32Digits(s, base, i + 1,
           U32Step(acc, base, IndexFrom(HexDigits, tolower(CharAt(s, i)), 1) - 1))

\* number of digits left once leading zeros are dropped
RECURSIVE SignificantDigits(_, _)
SignificantDigits(s, i) ==
   IF i > Len(s) THEN 0
   ELSE IF CharAt(s, i) = "0" THEN SignificantDigits(s, i + 1)
   ELSE Len(s) - i + 1

\* ULONG_MAX of a 64 bit unsigned long, in decimal and in hexadecimal digits
ULONG_MAX_DEC == "18446744073709551615"

ULONG_MAX_HEX == "ffffffffffffffff"

DigitValue(c) == IndexFrom(HexDigits, tolower(c), 1) - 1

\* TRUE iff the digit string s, which has the length of max, is a greater
\* number than max
DigitsAbove(s, max) ==
   \E k \in 1..Len(max) :
      /\ DigitValue(CharAt(s, k)) > DigitValue(CharAt(max, k))
      /\ \A j \in 1..(k - 1) : DigitValue(CharAt(s, j)) = DigitValue(CharAt(max, j))

\* TRUE iff the number the digits of s spell is above max (ULONG_MAX in the
\* digits of the base): strtoul then returns ULONG_MAX
strtoul_overflows(s, max) ==
   LET above(n) ==
          \/ n > Len(max)
          \/ n = Len(max) /\ DigitsAbove(SubSeq(s, Len(s) - n + 1, Len(s)), max)
   IN  above(SignificantDigits(s, 1))

\* (unsigned)strtoul(s, NULL, base) for a string of valid digits, with a
\* 64 bit unsigned long: the low 32 bits of the number, and all ones when
\* the number is above max, where strtoul returns ULONG_MAX
strtoul32(s, base, max) ==
   IF strtoul_overflows(s, max) THEN <<65535, 65535>>
   ELSE U32Digits(s, base, 1, U32Zero)

\* string_to_unsigned: 0 unless every character is a decimal digit
string_to_unsigned(s) ==
   IF string_is_empty(s) THEN U32Zero
   ELSE IF \E i \in 1..Len(s) : ~isdigit(CharAt(s, i)) THEN U32Zero
   ELSE strtoul32(s, 10, ULONG_MAX_DEC)

\* string_hex_to_unsigned: optional 0x prefix, 0 unless every character is
\* a hexadecimal digit
string_hex_to_unsigned(s) ==
   LET hex_str == IF Len(s) >= 2 /\ CharAt(s, 1) = "0" /\ tolower(CharAt(s, 2)) = "x"
                  THEN SubSeq(s, 3, Len(s)) ELSE s
   IN  IF string_is_empty(hex_str) THEN U32Zero
       ELSE IF \E i \in 1..Len(hex_str) : ~isxdigit(CharAt(hex_str, i)) THEN U32Zero
       ELSE strtoul32(hex_str, 16, ULONG_MAX_HEX)

(***************************************************************************)
(* Path and URL utilities used by the path resolver.                       *)
(***************************************************************************)
FILE_PATH_CORE_INFO_EXTENSION == ".info"

\* working directory that relative paths are resolved against
WorkingDir == "/retroarch/"

\* index of the first character of the last path component
path_basename(path) == strrchr(path, "/") + 1

\* join a directory and a file name with exactly one separator
fill_pathname_join_special(dir, path) ==
   IF dir = "" THEN path
   ELSE IF CharAt(dir, Len(dir)) = "/" THEN dir \o path
   ELSE dir \o "/" \o path

\* position of the last '.' of the last path component, 0 if none
ExtensionDot(path) ==
   LET b    == path_basename(path)
       hits == {j \in b..Len(path) : CharAt(path, j) = "."}
   IN  IF hits = {} THEN 0 ELSE CHOOSE m \in hits : \A k \in hits : k <= m

path_remove_extension(path) ==
   IF ExtensionDot(path) = 0 THEN path
   ELSE SubSeq(path, 1, ExtensionDot(path) - 1)

path_get_extension(path) ==
   IF ExtensionDot(path) = 0 THEN ""
   ELSE SubSeq(path, ExtensionDot(path) + 1, Len(path))

path_is_compressed_file(path) ==
   LET ext == path_get_extension(path)
   IN  \/ strcasecmp(ext, "zip") = 0
       \/ strcasecmp(ext, "apk") = 0
       \/ strcasecmp(ext, "7z") = 0

\* absolute path of path; the modelled file system holds no symbolic
\* links, so resolve_symlinks changes nothing
path_resolve_realpath(path, resolve_symlinks) ==
   IF path = "" THEN ""
   ELSE IF CharAt(path, 1) = "/" THEN path
   ELSE WorkingDir \o path

\* two upper-case hexadecimal digits of a character code
HexByte(n) == CharAt("0123456789ABCDEF", (n \div 16) + 1) \o CharAt("0123456789ABCDEF", (n % 16) + 1)

urlencode_char(c) ==
   IF isalnum(c) \/ c \in {"-", "_", ".", "~", "/", ":"} THEN c
   ELSE "%" \o HexByte(Ord(c))

\* the encoding of characters i..j of s, halving the range
RECURSIVE urlencode_from(_, _, _)
urlencode_from(s, i, j) ==
   IF i > j THEN ""
   ELSE IF i = j THEN urlencode_char(CharAt(s, i))
   ELSE urlencode_from(s, i, (i + j) \div 2) \o urlencode_from(s, ((i + j) \div 2) + 1, j)

\* percent-encoding of a full URL
net_http_urlencode_full(source) == urlencode_from(source, 1, Len(source))

(***************************************************************************)
(* Entries.                                                                *)
(***************************************************************************)
CORE_UPDATER_LIST_TYPE_UNKNOWN == "UNKNOWN"
CORE_UPDATER_LIST_TYPE_BUILDBOT == "BUILDBOT"
CORE_UPDATER_LIST_TYPE_PFD == "PFD"

\* a NULL struct string_list pointer, and a list holding elems
NULL_LIST == [is_null |-> TRUE, elems |-> <<>>]

string_list(elems) == [is_null |-> FALSE, elems |-> elems]

\* string_split(str, "|")
string_split(str, delim) == string_list(strtok_r(str, delim))

\* a zero-initialised core_updater_list_entry_t
ZeroEntry ==
   [remote_filename        |-> NULL,
    remote_core_path       |-> NULL,
    local_core_path        |-> NULL,
    local_info_path        |-> NULL,
    display_name           |-> NULL,
    description            |-> NULL,
    licenses_list          |-> NULL_LIST,
    is_experimental        |-> FALSE,
    crc                    |-> U32Zero,
    date                   |-> [year |-> U32Zero, month |-> U32Zero, day |-> U32Zero],
    is_manufacturer_header |-> FALSE,
    is_console_header      |-> FALSE]

\* results of the setters: the return value and the entry as left behind
Fail(entry) == [ok |-> FALSE, entry |-> entry]

Done(entry) == [ok |-> TRUE, entry |-> entry]

(***************************************************************************)
(* Getters.                                                                *)
(***************************************************************************)
core_updater_list_size(list) == Len(list)

\* variant of core_updater_list_get_filename that compares the name with
\* local_core_path
get_filename_by_local_core_path(list, remote_filename) ==
   IF string_is_empty(remote_filename) THEN 0
   ELSE IF Len(list) < 1 THEN 0
   ELSE LET hits == {i \in 1..Len(list) :
                        /\ ~string_is_empty(list[i].local_core_path)
                        /\ string_is_equal(remote_filename, list[i].local_core_path)}
        IN  IF hits = {} THEN 0 ELSE Min(hits)

\* variant of core_updater_list_get_filename that compares ignoring case
get_filename_ignoring_case(list, remote_filename) ==
   IF string_is_empty(remote_filename) THEN 0
   ELSE IF Len(list) < 1 THEN 0
   ELSE LET hits == {i \in 1..Len(list) :
                        /\ ~string_is_empty(list[i].remote_filename)
                        /\ strcasecmp(remote_filename, list[i].remote_filename) = 0}
        IN  IF hits = {} THEN 0 ELSE Min(hits)

\* index of the entry core_updater_list_get_filename finds, 0 when it
\* returns false
core_updater_list_get_filename(list, remote_filename) ==
   IF string_is_empty(remote_filename) THEN 0
   ELSE IF Len(list) < 1 THEN 0
   ELSE LET hits == {i \in 1..Len(list) :
                        /\ ~string_is_empty(list[i].remote_filename)
                        /\ string_is_equal(remote_filename, list[i].remote_filename)}
        IN  IF hits = {} THEN 0 ELSE Min(hits)

(***************************************************************************)
(* Setters.                                                                *)
(***************************************************************************)
core_updater_list_set_date(entry, date_str) ==
   IF string_is_empty(date_str) THEN Fail(entry)
   ELSE LET toks == strtok_r(date_str, "-")
        IN  IF Len(toks) < 3 THEN Fail(entry)
            ELSE Done([entry EXCEPT !.date =
                    [year  |-> string_to_unsigned(toks[1]),
                     month |-> string_to_unsigned(toks[2]),
                     day   |-> string_to_unsigned(toks[3])]])

\* variant of core_updater_list_set_crc that accepts a checksum of zero
set_crc_accepting_zero(entry, crc_str) ==
   IF string_is_empty(crc_str) THEN Fail(entry)
   ELSE Done([entry EXCEPT !.crc = string_hex_to_unsigned(crc_str)])

core_updater_list_set_crc(entry, crc_str) ==
   IF string_is_empty(crc_str) THEN Fail(entry)
   ELSE IF string_hex_to_unsigned(crc_str) = U32Zero THEN Fail(entry)
   ELSE Done([entry EXCEPT !.crc = string_hex_to_unsigned(crc_str)])

\* local_info_path as core_updater_list_set_paths derives it
InfoPathOf(path_libretro_info, filename_str, is_archive) ==
   LET cut(stem, us, last_underscore) ==
          IF /\ ~string_is_empty(last_underscore)
             /\ ~string_is_equal(last_underscore, "_libretro")
          THEN SubSeq(stem, 1, us - 1) ELSE stem
       at(stem, us) == cut(stem, us, IF us = 0 THEN NULL ELSE SubSeq(stem, us, Len(stem)))
       trimmed(stem) == at(stem, strrchr(stem, "_"))
       unpacked(noext) == IF is_archive THEN path_remove_extension(noext) ELSE noext
   IN  trimmed(unpacked(path_remove_extension(
          fill_pathname_join_special(path_libretro_info, filename_str))))
       \o FILE_PATH_CORE_INFO_EXTENSION

\* uninit is what the uninitialised stack buffer remote_core_path holds
\* when the list type is not buildbot
core_updater_list_set_paths(entry, path_dir_libretro, path_libretro_info, network_buildbot_url, filename_str, list_type, uninit) ==
   IF \/ string_is_empty(filename_str)
      \/ string_is_empty(path_dir_libretro)
      \/ string_is_empty(path_libretro_info)
   THEN Fail(entry)
   ELSE IF /\ list_type = CORE_UPDATER_LIST_TYPE_BUILDBOT
           /\ string_is_empty(network_buildbot_url)
   THEN Fail(entry)
   ELSE LET resolve_symlinks == list_type # CORE_UPDATER_LIST_TYPE_PFD
            remote_core_path ==
               IF list_type = CORE_UPDATER_LIST_TYPE_BUILDBOT
               THEN net_http_urlencode_full(
                       fill_pathname_join_special(network_buildbot_url, filename_str))
               ELSE uninit
            local_core_path(is_archive, joined) ==
               path_resolve_realpath(
                  IF is_archive THEN path_remove_extension(joined) ELSE joined,
                  resolve_symlinks)
            paths(is_archive) ==
               Done([entry EXCEPT
                    !.remote_filename  = filename_str,
                    !.remote_core_path = remote_core_path,
                    !.local_core_path  = local_core_path(is_archive,
                          fill_pathname_join_special(path_dir_libretro, filename_str)),
                    !.local_info_path  = InfoPathOf(path_libretro_info, filename_str, is_archive)])
        IN  paths(path_is_compressed_file(filename_str))

\* the metadata provider: files maps the path of each readable info file
\* to its core_updater_info_t
core_info_get_core_updater_info(files, local_info_path) ==
   IF local_info_path \in DOMAIN files THEN {files[local_info_path]} ELSE {}

\* variant of core_updater_list_set_core_info that takes description and
\* licences from the record only when the record has a display name
set_core_info_all_or_nothing(entry, local_info_path, filename_str, files) ==
   IF string_is_empty(local_info_path) \/ string_is_empty(filename_str) THEN Fail(entry)
   ELSE LET found == core_info_get_core_updater_info(files, local_info_path)
            named == found # {} /\ \A r \in found : ~string_is_empty(r.display_name)
        IN  IF named
            THEN LET core_info == CHOOSE r \in found : TRUE
                 IN  Done([entry EXCEPT
                        !.display_name    = core_info.display_name,
                        !.is_experimental = core_info.is_experimental,
                        !.description     = IF ~string_is_empty(core_info.description)
                                            THEN core_info.description ELSE "",
                        !.licenses_list   = IF ~string_is_empty(core_info.licenses)
                                            THEN string_split(core_info.licenses, "|")
                                            ELSE NULL_LIST])
            ELSE Done([entry EXCEPT
                        !.display_name    = filename_str,
                        !.is_experimental = TRUE,
                        !.description     = "",
                        !.licenses_list   = NULL_LIST])

core_updater_list_set_core_info(entry, local_info_path, filename_str, files) ==
   IF string_is_empty(local_info_path) \/ string_is_empty(filename_str) THEN Fail(entry)
   ELSE LET found == core_info_get_core_updater_info(files, local_info_path)
        IN  IF found # {}
            THEN LET core_info == CHOOSE r \in found : TRUE
                     named     == ~string_is_empty(core_info.display_name)
                 IN  Done([entry EXCEPT
                        !.display_name    = IF named THEN core_info.display_name ELSE filename_str,
                        !.is_experimental = IF named THEN core_info.is_experimental ELSE TRUE,
                        !.description     = IF ~string_is_empty(core_info.description)
                                            THEN core_info.description ELSE "",
                        !.licenses_list   = IF ~string_is_empty(core_info.licenses)
                                            THEN string_split(core_info.licenses, "|")
                                            ELSE NULL_LIST])
            ELSE Done([entry EXCEPT
                        !.display_name    = filename_str,
                        !.is_experimental = TRUE,
                        !.description     = "",
                        !.licenses_list   = NULL_LIST])

\* the list with a zero-filled slot appended that takes over the entry's
\* strings, licence list, experimental flag, crc and date
core_updater_list_push_entry(list, entry) ==
   Append(list, [ZeroEntry EXCEPT
      !.remote_filename  = entry.remote_filename,
      !.remote_core_path = entry.remote_core_path,
      !.local_core_path  = entry.local_core_path,
      !.local_info_path  = entry.local_info_path,
      !.display_name     = entry.display_name,
      !.description      = entry.description,
      !.licenses_list    = entry.licenses_list,
      !.is_experimental  = entry.is_experimental,
      !.crc              = entry.crc,
      !.date             = entry.date])

\* the list after one buildbot listing: unchanged when the listing is
\* skipped (the error label), one entry longer otherwise
core_updater_list_add_entry(list, path_dir_libretro, path_libretro_info, network_buildbot_url, date_str, crc_str, filename_str, files) ==
   IF core_updater_list_get_filename(list, filename_str) # 0 THEN list
   ELSE LET with_info(m) ==
               IF ~m.ok THEN list ELSE core_updater_list_push_entry(list, m.entry)
            with_paths(p) ==
               IF ~p.ok THEN list
               ELSE with_info(core_updater_list_set_core_info(p.entry,
                                 p.entry.local_info_path, filename_str, files))
            with_crc(c) ==
               IF ~c.ok THEN list
               ELSE with_paths(core_updater_list_set_paths(c.entry, path_dir_libretro,
                                  path_libretro_info, network_buildbot_url, filename_str,
                                  CORE_UPDATER_LIST_TYPE_BUILDBOT, ""))
            with_date(d) ==
               IF ~d.ok THEN list
               ELSE with_crc(core_updater_list_set_crc(d.entry, crc_str))
        IN  with_date(core_updater_list_set_date(ZeroEntry, date_str))

\* variant of core_updater_list_add_pfd_entry without the lookup of the
\* file name in the list
add_pfd_entry_without_lookup(list, path_dir_libretro, path_libretro_info, filename_str, files, uninit) ==
   IF string_is_empty(filename_str) THEN list
   ELSE LET with_info(m) ==
               IF ~m.ok THEN list ELSE core_updater_list_push_entry(list, m.entry)
            with_paths(p) ==
               IF ~p.ok THEN list
               ELSE with_info(core_updater_list_set_core_info(p.entry,
                                 p.entry.local_info_path, filename_str, files))
        IN  with_paths(core_updater_list_set_paths(ZeroEntry, path_dir_libretro,
                          path_libretro_info, NULL, filename_str,
                          CORE_UPDATER_LIST_TYPE_PFD, uninit))

\* the list after one play feature delivery listing
core_updater_list_add_pfd_entry(list, path_dir_libretro, path_libretro_info, filename_str, files, uninit) ==
   IF string_is_empty(filename_str) THEN list
   ELSE IF core_updater_list_get_filename(list, filename_str) # 0 THEN list
   ELSE LET with_info(m) ==
               IF ~m.ok THEN list ELSE core_updater_list_push_entry(list, m.entry)
            with_paths(p) ==
               IF ~p.ok THEN list
               ELSE with_info(core_updater_list_set_core_info(p.entry,
                                 p.entry.local_info_path, filename_str, files))
        IN  with_paths(core_updater_list_set_paths(ZeroEntry, path_dir_libretro,
                          path_libretro_info, NULL, filename_str,
                          CORE_UPDATER_LIST_TYPE_PFD, uninit))

(***************************************************************************)
(* WizModl metadata table.                                                 *)
(***************************************************************************)
core_metadata_wizmodl_db ==
   <<
     [core_name |-> "Family Computer", manufacturer |-> "Nintendo", console_model |-> "Nintendo Entertainment System", console_type |-> "home", release_year |-> 1983, manufacturer_priority |-> 1, console_priority |-> 10],
     [core_name |-> "Famicom", manufacturer |-> "Nintendo", console_model |-> "Nintendo Entertainment System", console_type |-> "home", release_year |-> 1983, manufacturer_priority |-> 1, console_priority |-> 10],
     [core_name |-> "FCEUmm", manufacturer |-> "Nintendo", console_model |-> "Nintendo Entertainment System", console_type |-> "home", release_year |-> 1983, manufacturer_priority |-> 1, console_priority |-> 10],
     [core_name |-> "Nestopia", manufacturer |-> "Nintendo", console_model |-> "Nintendo Entertainment System", console_type |-> "home", release_year |-> 1983, manufacturer_priority |-> 1, console_priority |-> 10],
     [core_name |-> "QuickNES", manufacturer |-> "Nintendo", console_model |-> "Nintendo Entertainment System", console_type |-> "home", release_year |-> 1983, manufacturer_priority |-> 1, console_priority |-> 10],
     [core_name |-> "Super Nintendo", manufacturer |-> "Nintendo", console_model |-> "Super Nintendo Entertainment System", console_type |-> "home", release_year |-> 1990, manufacturer_priority |-> 1, console_priority |-> 20],
     [core_name |-> "Snes9x", manufacturer |-> "Nintendo", console_model |-> "Super Nintendo Entertainment System", console_type |-> "home", release_year |-> 1990, manufacturer_priority |-> 1, console_priority |-> 20],
     [core_name |-> "bsnes", manufacturer |-> "Nintendo", console_model |-> "Super Nintendo Entertainment System", console_type |-> "home", release_year |-> 1990, manufacturer_priority |-> 1, console_priority |-> 20],
     [core_name |-> "higan", manufacturer |-> "Nintendo", console_model |-> "Super Nintendo Entertainment System", console_type |-> "home", release_year |-> 1990, manufacturer_priority |-> 1, console_priority |-> 20],
     [core_name |-> "Nintendo 64", manufacturer |-> "Nintendo", console_model |-> "Nintendo 64", console_type |-> "home", release_year |-> 1996, manufacturer_priority |-> 1, console_priority |-> 30],
     [core_name |-> "Mupen64Plus", manufacturer |-> "Nintendo", console_model |-> "Nintendo 64", console_type |-> "home", release_year |-> 1996, manufacturer_priority |-> 1, console_priority |-> 30],
     [core_name |-> "ParaLLEl", manufacturer |-> "Nintendo", console_model |-> "Nintendo 64", console_type |-> "home", release_year |-> 1996, manufacturer_priority |-> 1, console_priority |-> 30],
     [core_name |-> "GameCube", manufacturer |-> "Nintendo", console_model |-> "Nintendo GameCube", console_type |-> "home", release_year |-> 2001, manufacturer_priority |-> 1, console_priority |-> 40],
     [core_name |-> "Dolphin", manufacturer |-> "Nintendo", console_model |-> "Nintendo GameCube", console_type |-> "home", release_year |-> 2001, manufacturer_priority |-> 1, console_priority |-> 40],
     [core_name |-> "Wii", manufacturer |-> "Nintendo", console_model |-> "Nintendo Wii", console_type |-> "home", release_year |-> 2006, manufacturer_priority |-> 1, console_priority |-> 50],
     [core_name |-> "Game Boy", manufacturer |-> "Nintendo", console_model |-> "Game Boy", console_type |-> "portable", release_year |-> 1989, manufacturer_priority |-> 1, console_priority |-> 100],
     [core_name |-> "SameBoy", manufacturer |-> "Nintendo", console_model |-> "Game Boy", console_type |-> "portable", release_year |-> 1989, manufacturer_priority |-> 1, console_priority |-> 100],
     [core_name |-> "Gambatte", manufacturer |-> "Nintendo", console_model |-> "Game Boy", console_type |-> "portable", release_year |-> 1989, manufacturer_priority |-> 1, console_priority |-> 100],
     [core_name |-> "TGB Dual", manufacturer |-> "Nintendo", console_model |-> "Game Boy", console_type |-> "portable", release_year |-> 1989, manufacturer_priority |-> 1, console_priority |-> 100],
     [core_name |-> "Game Boy Color", manufacturer |-> "Nintendo", console_model |-> "Game Boy Color", console_type |-> "portable", release_year |-> 1998, manufacturer_priority |-> 1, console_priority |-> 110],
     [core_name |-> "Game Boy Advance", manufacturer |-> "Nintendo", console_model |-> "Game Boy Advance", console_type |-> "portable", release_year |-> 2001, manufacturer_priority |-> 1, console_priority |-> 120],
     [core_name |-> "mGBA", manufacturer |-> "Nintendo", console_model |-> "Game Boy Advance", console_type |-> "portable", release_year |-> 2001, manufacturer_priority |-> 1, console_priority |-> 120],
     [core_name |-> "VBA", manufacturer |-> "Nintendo", console_model |-> "Game Boy Advance", console_type |-> "portable", release_year |-> 2001, manufacturer_priority |-> 1, console_priority |-> 120],
     [core_name |-> "VBA-M", manufacturer |-> "Nintendo", console_model |-> "Game Boy Advance", console_type |-> "portable", release_year |-> 2001, manufacturer_priority |-> 1, console_priority |-> 120],
     [core_name |-> "Nintendo DS", manufacturer |-> "Nintendo", console_model |-> "Nintendo DS", console_type |-> "portable", release_year |-> 2004, manufacturer_priority |-> 1, console_priority |-> 130],
     [core_name |-> "DeSmuME", manufacturer |-> "Nintendo", console_model |-> "Nintendo DS", console_type |-> "portable", release_year |-> 2004, manufacturer_priority |-> 1, console_priority |-> 130],
     [core_name |-> "melonDS", manufacturer |-> "Nintendo", console_model |-> "Nintendo DS", console_type |-> "portable", release_year |-> 2004, manufacturer_priority |-> 1, console_priority |-> 130],
     [core_name |-> "Nintendo 3DS", manufacturer |-> "Nintendo", console_model |-> "Nintendo 3DS", console_type |-> "portable", release_year |-> 2011, manufacturer_priority |-> 1, console_priority |-> 140],
     [core_name |-> "Citra", manufacturer |-> "Nintendo", console_model |-> "Nintendo 3DS", console_type |-> "portable", release_year |-> 2011, manufacturer_priority |-> 1, console_priority |-> 140],
     [core_name |-> "PlayStation", manufacturer |-> "Sony", console_model |-> "PlayStation", console_type |-> "home", release_year |-> 1994, manufacturer_priority |-> 2, console_priority |-> 10],
     [core_name |-> "PCSX", manufacturer |-> "Sony", console_model |-> "PlayStation", console_type |-> "home", release_year |-> 1994, manufacturer_priority |-> 2, console_priority |-> 10],
     [core_name |-> "Beetle PSX", manufacturer |-> "Sony", console_model |-> "PlayStation", console_type |-> "home", release_year |-> 1994, manufacturer_priority |-> 2, console_priority |-> 10],
     [core_name |-> "SwanStation", manufacturer |-> "Sony", console_model |-> "PlayStation", console_type |-> "home", release_year |-> 1994, manufacturer_priority |-> 2, console_priority |-> 10],
     [core_name |-> "PlayStation 2", manufacturer |-> "Sony", console_model |-> "PlayStation 2", console_type |-> "home", release_year |-> 2000, manufacturer_priority |-> 2, console_priority |-> 20],
     [core_name |-> "PCSX2", manufacturer |-> "Sony", console_model |-> "PlayStation 2", console_type |-> "home", release_year |-> 2000, manufacturer_priority |-> 2, console_priority |-> 20],
     [core_name |-> "PlayStation 3", manufacturer |-> "Sony", console_model |-> "PlayStation 3", console_type |-> "home", release_year |-> 2006, manufacturer_priority |-> 2, console_priority |-> 30],
     [core_name |-> "RPCS3", manufacturer |-> "Sony", console_model |-> "PlayStation 3", console_type |-> "home", release_year |-> 2006, manufacturer_priority |-> 2, console_priority |-> 30],
     [core_name |-> "PlayStation Portable", manufacturer |-> "Sony", console_model |-> "PlayStation Portable", console_type |-> "portable", release_year |-> 2004, manufacturer_priority |-> 2, console_priority |-> 100],
     [core_name |-> "PPSSPP", manufacturer |-> "Sony", console_model |-> "PlayStation Portable", console_type |-> "portable", release_year |-> 2004, manufacturer_priority |-> 2, console_priority |-> 100],
     [core_name |-> "PlayStation Vita", manufacturer |-> "Sony", console_model |-> "PlayStation Vita", console_type |-> "portable", release_year |-> 2011, manufacturer_priority |-> 2, console_priority |-> 110],
     [core_name |-> "Vita3K", manufacturer |-> "Sony", console_model |-> "PlayStation Vita", console_type |-> "portable", release_year |-> 2011, manufacturer_priority |-> 2, console_priority |-> 110],
     [core_name |-> "Master System", manufacturer |-> "Sega", console_model |-> "Sega Master System", console_type |-> "home", release_year |-> 1986, manufacturer_priority |-> 3, console_priority |-> 10],
     [core_name |-> "SMS Plus", manufacturer |-> "Sega", console_model |-> "Sega Master System", console_type |-> "home", release_year |-> 1986, manufacturer_priority |-> 3, console_priority |-> 10],
     [core_name |-> "Genesis", manufacturer |-> "Sega", console_model |-> "Sega Genesis/Mega Drive", console_type |-> "home", release_year |-> 1988, manufacturer_priority |-> 3, console_priority |-> 20],
     [core_name |-> "Mega Drive", manufacturer |-> "Sega", console_model |-> "Sega Genesis/Mega Drive", console_type |-> "home", release_year |-> 1988, manufacturer_priority |-> 3, console_priority |-> 20],
     [core_name |-> "Genesis Plus GX", manufacturer |-> "Sega", console_model |-> "Sega Genesis/Mega Drive", console_type |-> "home", release_year |-> 1988, manufacturer_priority |-> 3, console_priority |-> 20],
     [core_name |-> "PicoDrive", manufacturer |-> "Sega", console_model |-> "Sega Genesis/Mega Drive", console_type |-> "home", release_year |-> 1988, manufacturer_priority |-> 3, console_priority |-> 20],
     [core_name |-> "Sega CD", manufacturer |-> "Sega", console_model |-> "Sega CD", console_type |-> "home", release_year |-> 1991, manufacturer_priority |-> 3, console_priority |-> 25],
     [core_name |-> "32X", manufacturer |-> "Sega", console_model |-> "Sega 32X", console_type |-> "home", release_year |-> 1994, manufacturer_priority |-> 3, console_priority |-> 28],
     [core_name |-> "Saturn", manufacturer |-> "Sega", console_model |-> "Sega Saturn", console_type |-> "home", release_year |-> 1994, manufacturer_priority |-> 3, console_priority |-> 30],
     [core_name |-> "Beetle Saturn", manufacturer |-> "Sega", console_model |-> "Sega Saturn", console_type |-> "home", release_year |-> 1994, manufacturer_priority |-> 3, console_priority |-> 30],
     [core_name |-> "Yabause", manufacturer |-> "Sega", console_model |-> "Sega Saturn", console_type |-> "home", release_year |-> 1994, manufacturer_priority |-> 3, console_priority |-> 30],
     [core_name |-> "Kronos", manufacturer |-> "Sega", console_model |-> "Sega Saturn", console_type |-> "home", release_year |-> 1994, manufacturer_priority |-> 3, console_priority |-> 30],
     [core_name |-> "Dreamcast", manufacturer |-> "Sega", console_model |-> "Sega Dreamcast", console_type |-> "home", release_year |-> 1998, manufacturer_priority |-> 3, console_priority |-> 40],
     [core_name |-> "Flycast", manufacturer |-> "Sega", console_model |-> "Sega Dreamcast", console_type |-> "home", release_year |-> 1998, manufacturer_priority |-> 3, console_priority |-> 40],
     [core_name |-> "Redream", manufacturer |-> "Sega", console_model |-> "Sega Dreamcast", console_type |-> "home", release_year |-> 1998, manufacturer_priority |-> 3, console_priority |-> 40],
     [core_name |-> "Game Gear", manufacturer |-> "Sega", console_model |-> "Sega Game Gear", console_type |-> "portable", release_year |-> 1990, manufacturer_priority |-> 3, console_priority |-> 100],
     [core_name |-> "Atari 2600", manufacturer |-> "Atari", console_model |-> "Atari 2600", console_type |-> "home", release_year |-> 1977, manufacturer_priority |-> 4, console_priority |-> 10],
     [core_name |-> "Stella", manufacturer |-> "Atari", console_model |-> "Atari 2600", console_type |-> "home", release_year |-> 1977, manufacturer_priority |-> 4, console_priority |-> 10],
     [core_name |-> "Atari 5200", manufacturer |-> "Atari", console_model |-> "Atari 5200", console_type |-> "home", release_year |-> 1982, manufacturer_priority |-> 4, console_priority |-> 20],
     [core_name |-> "Atari 7800", manufacturer |-> "Atari", console_model |-> "Atari 7800", console_type |-> "home", release_year |-> 1986, manufacturer_priority |-> 4, console_priority |-> 30],
     [core_name |-> "ProSystem", manufacturer |-> "Atari", console_model |-> "Atari 7800", console_type |-> "home", release_year |-> 1986, manufacturer_priority |-> 4, console_priority |-> 30],
     [core_name |-> "Atari Jaguar", manufacturer |-> "Atari", console_model |-> "Atari Jaguar", console_type |-> "home", release_year |-> 1993, manufacturer_priority |-> 4, console_priority |-> 40],
     [core_name |-> "Virtual Jaguar", manufacturer |-> "Atari", console_model |-> "Atari Jaguar", console_type |-> "home", release_year |-> 1993, manufacturer_priority |-> 4, console_priority |-> 40],
     [core_name |-> "Atari Lynx", manufacturer |-> "Atari", console_model |-> "Atari Lynx", console_type |-> "portable", release_year |-> 1989, manufacturer_priority |-> 4, console_priority |-> 100],
     [core_name |-> "Handy", manufacturer |-> "Atari", console_model |-> "Atari Lynx", console_type |-> "portable", release_year |-> 1989, manufacturer_priority |-> 4, console_priority |-> 100],
     [core_name |-> "Neo Geo", manufacturer |-> "SNK", console_model |-> "Neo Geo", console_type |-> "home", release_year |-> 1990, manufacturer_priority |-> 5, console_priority |-> 10],
     [core_name |-> "FinalBurn Neo", manufacturer |-> "SNK", console_model |-> "Neo Geo", console_type |-> "home", release_year |-> 1990, manufacturer_priority |-> 5, console_priority |-> 10],
     [core_name |-> "Neo Geo Pocket", manufacturer |-> "SNK", console_model |-> "Neo Geo Pocket", console_type |-> "portable", release_year |-> 1998, manufacturer_priority |-> 5, console_priority |-> 100],
     [core_name |-> "RACE", manufacturer |-> "SNK", console_model |-> "Neo Geo Pocket", console_type |-> "portable", release_year |-> 1998, manufacturer_priority |-> 5, console_priority |-> 100],
     [core_name |-> "PC Engine", manufacturer |-> "NEC", console_model |-> "PC Engine/TurboGrafx-16", console_type |-> "home", release_year |-> 1987, manufacturer_priority |-> 6, console_priority |-> 10],
     [core_name |-> "Beetle PCE", manufacturer |-> "NEC", console_model |-> "PC Engine/TurboGrafx-16", console_type |-> "home", release_year |-> 1987, manufacturer_priority |-> 6, console_priority |-> 10],
     [core_name |-> "TurboGrafx", manufacturer |-> "NEC", console_model |-> "PC Engine/TurboGrafx-16", console_type |-> "home", release_year |-> 1987, manufacturer_priority |-> 6, console_priority |-> 10],
     [core_name |-> "PC-FX", manufacturer |-> "NEC", console_model |-> "PC-FX", console_type |-> "home", release_year |-> 1994, manufacturer_priority |-> 6, console_priority |-> 20],
     [core_name |-> "WonderSwan", manufacturer |-> "Bandai", console_model |-> "WonderSwan", console_type |-> "portable", release_year |-> 1999, manufacturer_priority |-> 7, console_priority |-> 100],
     [core_name |-> "Beetle Cygne", manufacturer |-> "Bandai", console_model |-> "WonderSwan", console_type |-> "portable", release_year |-> 1999, manufacturer_priority |-> 7, console_priority |-> 100],
     [core_name |-> "MAME", manufacturer |-> "Arcade", console_model |-> "Multiple Arcade Systems", console_type |-> "arcade", release_year |-> 1972, manufacturer_priority |-> 8, console_priority |-> 10],
     [core_name |-> "Final Burn", manufacturer |-> "Arcade", console_model |-> "Multiple Arcade Systems", console_type |-> "arcade", release_year |-> 1972, manufacturer_priority |-> 8, console_priority |-> 10],
     [core_name |-> "FBNeo", manufacturer |-> "Arcade", console_model |-> "Multiple Arcade Systems", console_type |-> "arcade", release_year |-> 1972, manufacturer_priority |-> 8, console_priority |-> 10],
     [core_name |-> "Commodore 64", manufacturer |-> "Commodore", console_model |-> "Commodore 64", console_type |-> "computer", release_year |-> 1982, manufacturer_priority |-> 9, console_priority |-> 10],
     [core_name |-> "VICE", manufacturer |-> "Commodore", console_model |-> "Commodore 64", console_type |-> "computer", release_year |-> 1982, manufacturer_priority |-> 9, console_priority |-> 10],
     [core_name |-> "Amiga", manufacturer |-> "Commodore", console_model |-> "Amiga", console_type |-> "computer", release_year |-> 1985, manufacturer_priority |-> 9, console_priority |-> 20],
     [core_name |-> "PUAE", manufacturer |-> "Commodore", console_model |-> "Amiga", console_type |-> "computer", release_year |-> 1985, manufacturer_priority |-> 9, console_priority |-> 20],
     [core_name |-> "MSX", manufacturer |-> "Microsoft", console_model |-> "MSX", console_type |-> "computer", release_year |-> 1983, manufacturer_priority |-> 10, console_priority |-> 10],
     [core_name |-> "blueMSX", manufacturer |-> "Microsoft", console_model |-> "MSX", console_type |-> "computer", release_year |-> 1983, manufacturer_priority |-> 10, console_priority |-> 10],
     [core_name |-> "DOS", manufacturer |-> "IBM", console_model |-> "IBM PC Compatible", console_type |-> "computer", release_year |-> 1981, manufacturer_priority |-> 11, console_priority |-> 10],
     [core_name |-> "DOSBox", manufacturer |-> "IBM", console_model |-> "IBM PC Compatible", console_type |-> "computer", release_year |-> 1981, manufacturer_priority |-> 11, console_priority |-> 10],
     [core_name |-> NULL, manufacturer |-> "Unknown", console_model |-> "Unknown System", console_type |-> "unknown", release_year |-> 9999, manufacturer_priority |-> 999, console_priority |-> 999]
   >>

\* the row of the first pattern that occurs in display_name, else the
\* trailing fallback row
get_core_metadata_wizmodl(display_name) ==
   LET last == Len(core_metadata_wizmodl_db)
       hits == {i \in 1..(last - 1) :
                   /\ core_metadata_wizmodl_db[i].core_name # NULL
                   /\ strstr(display_name, core_metadata_wizmodl_db[i].core_name)}
   IN  IF string_is_empty(display_name) THEN core_metadata_wizmodl_db[last]
       ELSE IF hits = {} THEN core_metadata_wizmodl_db[last]
       ELSE core_metadata_wizmodl_db[Min(hits)]

\* decimal text of a natural number (snprintf "%d")
RECURSIVE IntToStr(_)
IntToStr(n) ==
   IF n < 10 THEN CharAt("0123456789", n + 1)
   ELSE IntToStr(n \div 10) \o CharAt("0123456789", (n % 10) + 1)

create_manufacturer_header(manufacturer) ==
   [ZeroEntry EXCEPT
      !.remote_filename        = "=== " \o manufacturer \o " ===",
      !.display_name           = "=== " \o manufacturer \o " ===",
      !.description            = "",
      !.is_experimental        = FALSE,
      !.is_manufacturer_header = TRUE,
      !.is_console_header      = FALSE,
      !.crc                    = U32Zero]

\* variant of create_console_header that leaves the manufacturer flag set
create_console_header_flagged_manufacturer(console_model, release_year) ==
   LET header_text ==
          IF release_year > 0 /\ release_year < 9999
          THEN "--- " \o console_model \o " (" \o IntToStr(release_year) \o ") ---"
          ELSE "--- " \o console_model \o " ---"
   IN  [ZeroEntry EXCEPT
          !.remote_filename        = header_text,
          !.display_name           = header_text,
          !.description            = "",
          !.is_experimental        = FALSE,
          !.is_manufacturer_header = TRUE,
          !.is_console_header      = TRUE,
          !.crc                    = U32Zero]

create_console_header(console_model, release_year) ==
   LET header_text ==
          IF release_year > 0 /\ release_year < 9999
          THEN "--- " \o console_model \o " (" \o IntToStr(release_year) \o ") ---"
          ELSE "--- " \o console_model \o " ---"
   IN  [ZeroEntry EXCEPT
          !.remote_filename        = header_text,
          !.display_name           = header_text,
          !.description            = "",
          !.is_experimental        = FALSE,
          !.is_manufacturer_header = FALSE,
          !.is_console_header      = TRUE,
          !.crc                    = U32Zero]

(***************************************************************************)
(* Sorting and header injection.                                           *)
(***************************************************************************)
IsHeader(e) == e.is_manufacturer_header \/ e.is_console_header

\* variant of core_updater_list_qsort_func_wizmodl that orders the consoles of
\* one manufacturer by descending priority
qsort_func_wizmodl_console_descending(a, b) ==
   IF IsHeader(a) /\ ~IsHeader(b) THEN -1
   ELSE IF ~IsHeader(a) /\ IsHeader(b) THEN 1
   ELSE IF a.is_manufacturer_header /\ b.is_console_header THEN -1
   ELSE IF a.is_console_header /\ b.is_manufacturer_header THEN 1
   ELSE IF \/ a.is_manufacturer_header /\ b.is_manufacturer_header
           \/ a.is_console_header /\ b.is_console_header
        THEN strcasecmp(a.display_name, b.display_name)
   ELSE IF string_is_empty(a.display_name) \/ string_is_empty(b.display_name) THEN 0
   ELSE LET by_year(meta_a, meta_b, year_cmp) ==
               IF year_cmp # 0 THEN year_cmp
               ELSE strcasecmp(a.display_name, b.display_name)
            by_type(meta_a, meta_b, type_cmp) ==
               IF type_cmp # 0 THEN type_cmp
               ELSE by_year(meta_a, meta_b, meta_a.release_year - meta_b.release_year)
            by_console(meta_a, meta_b, console_cmp) ==
               IF console_cmp # 0 THEN console_cmp
               ELSE by_type(meta_a, meta_b,
                            strcasecmp(meta_a.console_type, meta_b.console_type))
            by_manufacturer(meta_a, meta_b, manufacturer_cmp) ==
               IF manufacturer_cmp # 0 THEN manufacturer_cmp
               ELSE IF meta_a.console_priority # meta_b.console_priority
               THEN (IF meta_a.console_priority > meta_b.console_priority THEN -1 ELSE 1)
               ELSE by_console(meta_a, meta_b,
                               strcasecmp(meta_a.console_model, meta_b.console_model))
            by_meta(meta_a, meta_b) ==
               IF meta_a.manufacturer_priority # meta_b.manufacturer_priority
               THEN (IF meta_a.manufacturer_priority < meta_b.manufacturer_priority
                     THEN -1 ELSE 1)
               ELSE by_manufacturer(meta_a, meta_b,
                                    strcasecmp(meta_a.manufacturer, meta_b.manufacturer))
        IN  by_meta(get_core_metadata_wizmodl(a.display_name),
                    get_core_metadata_wizmodl(b.display_name))

\* variant of core_updater_list_qsort_func_wizmodl that orders real entries
\* by display name alone
qsort_func_by_display_name(a, b) ==
   IF IsHeader(a) /\ ~IsHeader(b) THEN -1
   ELSE IF ~IsHeader(a) /\ IsHeader(b) THEN 1
   ELSE IF a.is_manufacturer_header /\ b.is_console_header THEN -1
   ELSE IF a.is_console_header /\ b.is_manufacturer_header THEN 1
   ELSE IF string_is_empty(a.display_name) \/ string_is_empty(b.display_name) THEN 0
   ELSE strcasecmp(a.display_name, b.display_name)

core_updater_list_qsort_func_wizmodl(a, b) ==
   IF IsHeader(a) /\ ~IsHeader(b) THEN -1
   ELSE IF ~IsHeader(a) /\ IsHeader(b) THEN 1
   ELSE IF a.is_manufacturer_header /\ b.is_console_header THEN -1
   ELSE IF a.is_console_header /\ b.is_manufacturer_header THEN 1
   ELSE IF \/ a.is_manufacturer_header /\ b.is_manufacturer_header
           \/ a.is_console_header /\ b.is_console_header
        THEN strcasecmp(a.display_name, b.display_name)
   ELSE IF string_is_empty(a.display_name) \/ string_is_empty(b.display_name) THEN 0
   ELSE LET by_year(meta_a, meta_b, year_cmp) ==
               IF year_cmp # 0 THEN year_cmp
               ELSE strcasecmp(a.display_name, b.display_name)
            by_type(meta_a, meta_b, type_cmp) ==
               IF type_cmp # 0 THEN type_cmp
               ELSE by_year(meta_a, meta_b, meta_a.release_year - meta_b.release_year)
            by_console(meta_a, meta_b, console_cmp) ==
               IF console_cmp # 0 THEN console_cmp
               ELSE by_type(meta_a, meta_b,
                            strcasecmp(meta_a.console_type, meta_b.console_type))
            by_manufacturer(meta_a, meta_b, manufacturer_cmp) ==
               IF manufacturer_cmp # 0 THEN manufacturer_cmp
               ELSE IF meta_a.console_priority # meta_b.console_priority
               THEN (IF meta_a.console_priority < meta_b.console_priority THEN -1 ELSE 1)
               ELSE by_console(meta_a, meta_b,
                               strcasecmp(meta_a.console_model, meta_b.console_model))
            by_meta(meta_a, meta_b) ==
               IF meta_a.manufacturer_priority # meta_b.manufacturer_priority
               THEN (IF meta_a.manufacturer_priority < meta_b.manufacturer_priority
                     THEN -1 ELSE 1)
               ELSE by_manufacturer(meta_a, meta_b,
                                    strcasecmp(meta_a.manufacturer, meta_b.manufacturer))
        IN  by_meta(get_core_metadata_wizmodl(a.display_name),
                    get_core_metadata_wizmodl(b.display_name))

\* TRUE iff the comparator's results c[i, j] on n elements are those of a
\* total preorder, as qsort requires: c[j, i] has the opposite sign of
\* c[i, j], and c[i, j] <= 0 and c[j, k] <= 0 give c[i, k] <= 0
ConsistentComparator(n, c) ==
   /\ \A i, j \in 1..n :
         /\ c[i, j] < 0 <=> c[j, i] > 0
         /\ c[i, j] = 0 <=> c[j, i] = 0
   /\ \A i, j, k \in 1..n : (c[i, j] <= 0 /\ c[j, k] <= 0) => c[i, k] <= 0

\* every array qsort may leave behind, given the comparator's result c[i, j]
\* for elements i and j: the permutations of list in which no element is
\* followed by one that compares lower; which of them the library produces
\* when elements compare equal is unspecified. With a comparator that is not
\* consistent the order of the array is undefined: any permutation
qsort(list, c) ==
   LET n      == Len(list)
       perms  == {p \in [1..n -> 1..n] : \A i, j \in 1..n : i # j => p[i] # p[j]}
       sorted == IF ConsistentComparator(n, c)
                 THEN {p \in perms : \A i, j \in 1..n : i < j => c[p[i], p[j]] <= 0}
                 ELSE perms
   IN  {[k \in 1..n |-> list[p[k]]] : p \in sorted}

\* the allocations of core_updater_list_inject_dual_headers that can fail:
\* the reservation of the new array, the first manufacturer header, the
\* first console header; "none" when every allocation succeeds
AllocFailures == {"none", "reserve", "manufacturer_header", "console_header"}

\* the string lists core_updater_list_free_entry hands to string_list_free;
\* a licence list is named after the file of the entry it was split for
core_updater_list_free_entry(entry) ==
   IF entry.licenses_list.is_null THEN {} ELSE {entry.remote_filename}

\* the licence lists the entries of the list point to
LicenseLists(list) ==
   UNION {core_updater_list_free_entry(list[i]) : i \in 1..Len(list)}

\* the new array built by the injection loop from entry i on; alloc is the
\* allocation that is still to fail
RECURSIVE inject_from(_, _, _, _, _, _)
inject_from(list, i, last_manufacturer, last_console_model, new_entries, alloc) ==
   IF i > Len(list) THEN new_entries
   ELSE IF string_is_empty(list[i].display_name)
   THEN inject_from(list, i + 1, last_manufacturer, last_console_model, new_entries, alloc)
   ELSE LET entry     == list[i]
            new_entry == [ZeroEntry EXCEPT
                            !.remote_filename        = entry.remote_filename,
                            !.remote_core_path       = entry.remote_core_path,
                            !.local_core_path        = entry.local_core_path,
                            !.local_info_path        = entry.local_info_path,
                            !.display_name           = entry.display_name,
                            !.description            = entry.description,
                            !.is_experimental        = entry.is_experimental,
                            !.is_manufacturer_header = FALSE,
                            !.is_console_header      = FALSE,
                            !.crc                    = entry.crc,
                            !.date                   = entry.date,
                            !.licenses_list          = entry.licenses_list]
            console(meta, with_mfg, new_con, left) ==
               inject_from(list, i + 1, meta.manufacturer, meta.console_model,
                  Append(IF new_con /\ left # "console_header"
                         THEN Append(with_mfg,
                                 create_console_header(meta.console_model, meta.release_year))
                         ELSE with_mfg,
                         new_entry),
                  IF new_con /\ left = "console_header" THEN "none" ELSE left)
            console_of(meta, with_mfg, console_0, left) ==
               console(meta, with_mfg,
                       \/ console_0 = NULL
                       \/ strcasecmp(console_0, meta.console_model) # 0,
                       left)
            manufacturer(meta, new_mfg) ==
               console_of(meta,
                  IF new_mfg /\ alloc # "manufacturer_header"
                  THEN Append(new_entries, create_manufacturer_header(meta.manufacturer))
                  ELSE new_entries,
                  IF new_mfg THEN NULL ELSE last_console_model,
                  IF new_mfg /\ alloc = "manufacturer_header" THEN "none" ELSE alloc)
            manufacturer_of(meta) ==
               manufacturer(meta,
                  \/ last_manufacturer = NULL
                  \/ strcasecmp(last_manufacturer, meta.manufacturer) # 0)
        IN  manufacturer_of(get_core_metadata_wizmodl(entry.display_name))

core_updater_list_inject_dual_headers(list, alloc) ==
   IF Len(list) = 0 THEN list
   ELSE IF alloc = "reserve" THEN list
   ELSE LET replace(new_entries) == IF Len(new_entries) > 0 THEN new_entries ELSE list
        IN  replace(inject_from(list, 1, NULL, NULL, <<>>, alloc))

\* the licence lists core_updater_list_inject_dual_headers frees with the
\* original entries when it replaces the array
inject_dual_headers_frees(list, alloc) ==
   IF Len(list) = 0 THEN {}
   ELSE IF alloc = "reserve" THEN {}
   ELSE IF Len(inject_from(list, 1, NULL, NULL, <<>>, alloc)) > 0
   THEN LicenseLists(list) ELSE {}

\* every list the sort with header injection may leave behind
core_updater_list_qsort_wizmodl(list, alloc) ==
   IF Len(list) < 2 THEN {list}
   ELSE {core_updater_list_inject_dual_headers(s, alloc) :
            s \in qsort(list, [i \in 1..Len(list), j \in 1..Len(list) |->
                                 core_updater_list_qsort_func_wizmodl(list[i], list[j])])}

\* the licence lists the sort with header injection frees
qsort_wizmodl_frees(list, alloc) ==
   IF Len(list) < 2 THEN {} ELSE inject_dual_headers_frees(list, alloc)

(***************************************************************************)
(* Parsers.                                                                *)
(***************************************************************************)
\* one pass of the line loop of core_updater_list_parse_network_data
network_line(list, line, path_dir_libretro, path_libretro_info, network_buildbot_url, files) ==
   LET fields(elem0, elem1, elem2) ==
          IF ~string_is_empty(elem0) /\ ~string_is_empty(elem1) /\ ~string_is_empty(elem2)
          THEN core_updater_list_add_entry(list, path_dir_libretro, path_libretro_info,
                                           network_buildbot_url, elem0, elem1, elem2, files)
          ELSE list
       split(toks) == fields(TokAt(toks, 1), TokAt(toks, 2), TokAt(toks, 3))
   IN  IF string_is_empty(line) THEN list
       ELSE split(strtok_r(line, " "))

\* variant of network_loop that gives up at the first line that adds nothing
RECURSIVE network_loop_abort_on_skip(_, _, _, _, _, _)
network_loop_abort_on_skip(list, lines, path_dir_libretro, path_libretro_info, network_buildbot_url, files) ==
   IF lines = <<>> THEN <<>>
   ELSE LET rest(next) ==
               IF next = list THEN [k \in 1..Len(lines) |-> list]
               ELSE <<next>> \o network_loop_abort_on_skip(next, Tail(lines),
                       path_dir_libretro, path_libretro_info, network_buildbot_url, files)
        IN  rest(network_line(list, Head(lines), path_dir_libretro,
                              path_libretro_info, network_buildbot_url, files))

\* the list after each pass of the line loop, in order
RECURSIVE network_loop(_, _, _, _, _, _)
network_loop(list, lines, path_dir_libretro, path_libretro_info, network_buildbot_url, files) ==
   IF lines = <<>> THEN <<>>
   ELSE LET rest(next) ==
               <<next>> \o network_loop(next, Tail(lines), path_dir_libretro,
                                        path_libretro_info, network_buildbot_url, files)
        IN  rest(network_line(list, Head(lines), path_dir_libretro,
                              path_libretro_info, network_buildbot_url, files))

\* the list after each pass of the loop of core_updater_list_parse_pfd_data;
\* uninit holds, for each pass, what the uninitialised buffer
\* remote_core_path of core_updater_list_set_paths holds in that pass
RECURSIVE pfd_loop(_, _, _, _, _, _)
pfd_loop(list, cores, path_dir_libretro, path_libretro_info, files, uninit) ==
   IF cores = <<>> THEN <<>>
   ELSE LET rest(next) ==
               <<next>> \o pfd_loop(next, Tail(cores), path_dir_libretro,
                                    path_libretro_info, files, Tail(uninit))
        IN  rest(IF string_is_empty(Head(cores)) THEN list
                 ELSE core_updater_list_add_pfd_entry(list, path_dir_libretro,
                         path_libretro_info, Head(cores), files, Head(uninit)))

LastOr(seq, default) == IF seq = <<>> THEN default ELSE seq[Len(seq)]

\* no allocation fails during the explored parses
ParseAlloc == "none"

\* what a parser leaves behind: return value, entries, list type, the list
\* after each record, whether the list was reset, and the licence lists
\* that were freed although entries of the list point to them
Outcome(ret, list, list_type, passes, reset, freed) ==
   [ret |-> ret, entries |-> list, type |-> list_type, steps |-> passes,
    reset |-> reset, dangling |-> LicenseLists(list) \cap freed]

\* variant of network_rebuild that does not count the newlines
network_rebuild_without_newline_check(path_dir_libretro, path_libretro_info, network_buildbot_url, data, len, files) ==
   LET data_buf  == SubSeq(data, 1, len)
       finish(passes, parsed) ==
          IF Len(parsed) < 1
          THEN {Outcome(FALSE, parsed, CORE_UPDATER_LIST_TYPE_UNKNOWN, passes, TRUE, {})}
          ELSE {Outcome(TRUE, s, CORE_UPDATER_LIST_TYPE_BUILDBOT, passes, TRUE,
                           qsort_wizmodl_frees(parsed, ParseAlloc)) :
                   s \in core_updater_list_qsort_wizmodl(parsed, ParseAlloc)}
       parse(passes) == finish(passes, LastOr(passes, <<>>))
   IN  parse(network_loop(<<>>, strtok_r(data_buf, "\n"), path_dir_libretro,
                          path_libretro_info, network_buildbot_url, files))

\* variant of network_rebuild that sets the list type before it looks at
\* the number of entries
network_rebuild_typed_before_count(path_dir_libretro, path_libretro_info, network_buildbot_url, data, len, files) ==
   LET data_buf  == SubSeq(data, 1, len)
       list_size == string_count_occurrences_single_character(data_buf, "\n")
       finish(passes, parsed) ==
          IF Len(parsed) < 1
          THEN {Outcome(FALSE, parsed, CORE_UPDATER_LIST_TYPE_BUILDBOT, passes, TRUE, {})}
          ELSE {Outcome(TRUE, s, CORE_UPDATER_LIST_TYPE_BUILDBOT, passes, TRUE,
                           qsort_wizmodl_frees(parsed, ParseAlloc)) :
                   s \in core_updater_list_qsort_wizmodl(parsed, ParseAlloc)}
       parse(passes) == finish(passes, LastOr(passes, <<>>))
   IN  IF list_size < 1
       THEN {Outcome(FALSE, <<>>, CORE_UPDATER_LIST_TYPE_UNKNOWN, <<>>, TRUE, {})}
       ELSE parse(network_loop(<<>>, strtok_r(data_buf, "\n"), path_dir_libretro,
                               path_libretro_info, network_buildbot_url, files))

\* every outcome of core_updater_list_parse_network_data once its sanity
\* check has passed and the list has been reset
network_rebuild(path_dir_libretro, path_libretro_info, network_buildbot_url, data, len, files) ==
   LET data_buf  == SubSeq(data, 1, len)
       list_size == string_count_occurrences_single_character(data_buf, "\n")
       finish(passes, parsed) ==
          IF Len(parsed) < 1
          THEN {Outcome(FALSE, parsed, CORE_UPDATER_LIST_TYPE_UNKNOWN, passes, TRUE, {})}
          ELSE {Outcome(TRUE, s, CORE_UPDATER_LIST_TYPE_BUILDBOT, passes, TRUE,
                           qsort_wizmodl_frees(parsed, ParseAlloc)) :
                   s \in core_updater_list_qsort_wizmodl(parsed, ParseAlloc)}
       parse(passes) == finish(passes, LastOr(passes, <<>>))
   IN  IF list_size < 1
       THEN {Outcome(FALSE, <<>>, CORE_UPDATER_LIST_TYPE_UNKNOWN, <<>>, TRUE, {})}
       ELSE parse(network_loop(<<>>, strtok_r(data_buf, "\n"), path_dir_libretro,
                               path_libretro_info, network_buildbot_url, files))

\* variant of pfd_rebuild that marks the list as a build-server list
pfd_rebuild_typed_buildbot(path_dir_libretro, path_libretro_info, pfd_cores, files, uninit) ==
   LET finish(passes, parsed) ==
          IF Len(parsed) < 1
          THEN {Outcome(FALSE, parsed, CORE_UPDATER_LIST_TYPE_UNKNOWN, passes, TRUE, {})}
          ELSE {Outcome(TRUE, s, CORE_UPDATER_LIST_TYPE_BUILDBOT, passes, TRUE,
                           qsort_wizmodl_frees(parsed, ParseAlloc)) :
                   s \in core_updater_list_qsort_wizmodl(parsed, ParseAlloc)}
       parse(passes) == finish(passes, LastOr(passes, <<>>))
   IN  parse(pfd_loop(<<>>, pfd_cores.elems, path_dir_libretro,
                      path_libretro_info, files, uninit))

\* every outcome of core_updater_list_parse_pfd_data once its sanity check
\* has passed and the list has been reset
pfd_rebuild(path_dir_libretro, path_libretro_info, pfd_cores, files, uninit) ==
   LET finish(passes, parsed) ==
          IF Len(parsed) < 1
          THEN {Outcome(FALSE, parsed, CORE_UPDATER_LIST_TYPE_UNKNOWN, passes, TRUE, {})}
          ELSE {Outcome(TRUE, s, CORE_UPDATER_LIST_TYPE_PFD, passes, TRUE,
                           qsort_wizmodl_frees(parsed, ParseAlloc)) :
                   s \in core_updater_list_qsort_wizmodl(parsed, ParseAlloc)}
       parse(passes) == finish(passes, LastOr(passes, <<>>))
   IN  parse(pfd_loop(<<>>, pfd_cores.elems, path_dir_libretro,
                      path_libretro_info, files, uninit))

(***************************************************************************)
(* Explored inputs.                                                        *)
(***************************************************************************)
\* lines a build-server listing is made of
ListingLines ==
   {"2023-01-15 deadbeef snes9x_libretro.so",
    "2023-02-20 cafebabe fceumm_libretro.so",
    "2024-03-01 0badf00d snes9x_libretro.so",
    "2023-04-04 00000000 mgba_libretro.so",
    "2023-05 1234abcd mgba_libretro.so",
    "2023-06-06 0000beef snes9x_libretro_android.so"}

\* listings of other shapes: no newline at all, only newlines, a line of
\* two fields, a checksum wider than 32 bits, runs of spaces, a fourth field,
\* a checksum that is not hexadecimal, three records whose first and last
\* share a manufacturer the second does not have
ExtraListings ==
   {"nonewline",
    "2023-01-15 deadbeef snes9x_libretro.so\n2023-04-04 0000beef mgba_libretro.so\n2023-02-20 cafebabe fceumm_libretro.so\n",
    "2023-09-09 nothex mgba_libretro.so\n2023-02-20 cafebabe fceumm_libretro.so\n",
    "\n\n",
    "2023-07-07 deadbeef\n2023-01-15 deadbeef snes9x_libretro.so\n",
    "2023-07-07 100000000 mgba_libretro.so\n2023-02-20 cafebabe fceumm_libretro.so\n",
    " 2023-08-08  0x1F  mgba_libretro.so.zip  extra\n\n2023-02-20-01 CAFEBABE fceumm_libretro.so"}

SeqsUpTo(S, n) == UNION {[1..k -> S] : k \in 0..n}

RECURSIVE JoinLines(_, _)
JoinLines(lines, last_end) ==
   IF lines = <<>> THEN ""
   ELSE IF Len(lines) = 1 THEN lines[1] \o last_end
   ELSE lines[1] \o "\n" \o JoinLines(Tail(lines), last_end)

\* listings of up to MaxLines lines, the last line with or without its
\* newline, and the listings of other shapes
Listings ==
   {JoinLines(ls, e) : ls \in SeqsUpTo(ListingLines, MaxLines), e \in {"\n", ""}}
   \cup ExtraListings

\* file names a play feature delivery listing is made of
PfdNames ==
   {"snes9x_libretro.so", "fceumm_libretro.so", "", "snes9x_libretro_android.so"}

\* the info directory: every info file present, or none
InfoInstalled ==
   [p \in {"/info/snes9x_libretro.info", "/info/fceumm_libretro.info", "/info/mgba_libretro.info"} |->
      IF p = "/info/snes9x_libretro.info"
      THEN [display_name |-> "Snes9x", description |-> "SNES", licenses |-> "GPLv3|MIT", is_experimental |-> FALSE]
      ELSE IF p = "/info/fceumm_libretro.info"
      THEN [display_name |-> "FCEUmm", description |-> NULL, licenses |-> NULL, is_experimental |-> TRUE]
      ELSE [display_name |-> "", description |-> "GBA", licenses |-> "GPLv2", is_experimental |-> FALSE]]

InfoMissing == [p \in {} |-> NULL]

InfoDirs == {InfoInstalled, InfoMissing}

NetworkArgs(data, len, dir, info, url) ==
   [data |-> data, len |-> len, path_dir_libretro |-> dir,
    path_libretro_info |-> info, network_buildbot_url |-> url]

\* argument tuples of core_updater_list_parse_network_data
NetworkCalls ==
   {NetworkArgs(d, Len(d), "/cores", "/info", "http://buildbot/") : d \in Listings}
   \cup {NetworkArgs(NULL, 0, "/cores", "/info", "http://buildbot/"),
         NetworkArgs("2023-01-15 deadbeef snes9x_libretro.so\n", 0, "/cores", "/info", "http://buildbot/"),
         NetworkArgs("2023-01-15 deadbeef snes9x_libretro.so\n2023-02-20 cafebabe fceumm_libretro.so\n", 66, "/cores", "/info", "http://buildbot/"),
         NetworkArgs("2023-01-15 deadbeef snes9x_libretro.so\n", 39, "/cores", "/info", ""),
         NetworkArgs("2023-01-15 deadbeef snes9x_libretro.so\n", 39, "", "/info", "http://buildbot/"),
         NetworkArgs("2023-01-15 deadbeef snes9x_libretro.so\n", 39, "/cores", NULL, "http://buildbot/")}

PfdArgs(cores, dir, info) ==
   [pfd_cores |-> cores, path_dir_libretro |-> dir, path_libretro_info |-> info]

\* argument tuples of core_updater_list_parse_pfd_data
PfdCalls ==
   {PfdArgs(string_list(c), "/cores", "/info") : c \in SeqsUpTo(PfdNames, MaxCores)}
   \cup {PfdArgs(NULL_LIST, "/cores", "/info"),
         PfdArgs(string_list(<<"snes9x_libretro.so">>), "", "/info")}

\* what the uninitialised remote_core_path buffer may hold
StackGarbage == {"", "?"}

\* what the buffer may hold in each pass of a platform-delivery parse: the
\* stack is written between two passes, so each pass reads its own bytes
StackGarbageOf(a) == [1..Len(a.pfd_cores.elems) -> StackGarbage]

\* the rebuilds of all explored calls, evaluated once
NetworkRebuilt ==
   [a \in NetworkCalls |-> [f \in InfoDirs |->
      IF string_is_empty(a.data) \/ a.len < 1 THEN {}
      ELSE network_rebuild(a.path_dir_libretro, a.path_libretro_info,
                           a.network_buildbot_url, a.data, a.len, f)]]

PfdRebuilt ==
   UNION {{[a |-> a, f |-> f, u |-> u, outs |->
              IF a.pfd_cores.is_null \/ Len(a.pfd_cores.elems) < 1 THEN {}
              ELSE pfd_rebuild(a.path_dir_libretro, a.path_libretro_info, a.pfd_cores, f, u)]
           : u \in StackGarbageOf(a)} : a \in PfdCalls, f \in InfoDirs}

\* variant of parse_network_data that keeps the entries the list held
parse_network_data_keeping_entries(list, list_type, a, files) ==
   IF string_is_empty(a.data) \/ a.len < 1
   THEN {Outcome(FALSE, list, list_type, <<>>, FALSE, {})}
   ELSE {[o EXCEPT !.entries = list \o o.entries] : o \in NetworkRebuilt[a][files]}

\* every outcome of core_updater_list_parse_network_data with arguments a
\* on a list that holds list with type list_type
parse_network_data(list, list_type, a, files) ==
   IF string_is_empty(a.data) \/ a.len < 1
   THEN {Outcome(FALSE, list, list_type, <<>>, FALSE, {})}
   ELSE NetworkRebuilt[a][files]

\* every outcome of core_updater_list_parse_pfd_data with arguments a
parse_pfd_data(list, list_type, a, files, uninit) ==
   IF a.pfd_cores.is_null \/ Len(a.pfd_cores.elems) < 1
   THEN {Outcome(FALSE, list, list_type, <<>>, FALSE, {})}
   ELSE (CHOOSE r \in PfdRebuilt : r.a = a /\ r.f = files /\ r.u = uninit).outs

(***************************************************************************)
(* State machine.                                                          *)
(***************************************************************************)
VARIABLES
   entries,          \* core_list->entries
   type,             \* core_list->type
   info_files,       \* the info files the metadata provider can read
   call,             \* the last operation: its name, arguments and return value
   steps,            \* the list after each record of the last parse
   had_entries,      \* whether the list held entries when the last operation began
   dangling,         \* the freed licence lists entries of the list still point to
   aborted,          \* the process was ended by the allocator
   core_list_cached, \* the static core_list_cached: NULL or the list it points to
   list_frees        \* how often each allocated list object has been freed

vars == <<entries, type, info_files, call, steps, had_entries, dangling, aborted, core_list_cached, list_frees>>

\* the NULL pointer to a list object; list objects are numbered from 1 in
\* the order core_updater_list_init creates them
NoList == 0

NoArgs == [none |-> TRUE]

\* core_updater_list_init
Init ==
   /\ entries = <<>>
   /\ type = CORE_UPDATER_LIST_TYPE_UNKNOWN
   /\ info_files \in InfoDirs
   /\ call = [op |-> "init", ret |-> TRUE, args |-> NoArgs]
   /\ steps = <<>>
   /\ had_entries = FALSE
   /\ dangling = {}
   /\ aborted = FALSE
   /\ core_list_cached = NoList
   /\ list_frees = <<>>

\* the licence lists core_updater_list_reset hands to string_list_free
reset_frees(list) == LicenseLists(list)

\* string_list_free on a list that was freed before is undefined: the
\* allocator may end the process; the other outcome is that the call returns
DoubleFreeAborts(op, freed) ==
   /\ freed \cap dangling # {}
   /\ aborted' = TRUE
   /\ call' = [op |-> "abort", ret |-> FALSE, args |-> [in |-> op]]
   /\ UNCHANGED <<entries, type, info_files, steps, had_entries, dangling, core_list_cached, list_frees>>

core_updater_list_reset ==
   /\ ~aborted
   /\ \/ /\ entries' = <<>>
         /\ type' = CORE_UPDATER_LIST_TYPE_UNKNOWN
         /\ call' = [op |-> "reset", ret |-> TRUE, args |-> NoArgs]
         /\ steps' = <<>>
         /\ had_entries' = (Len(entries) > 0)
         /\ dangling' = {}
         /\ UNCHANGED <<info_files, aborted, core_list_cached, list_frees>>
      \/ DoubleFreeAborts("reset", reset_frees(entries))

\* a parser returned with the given outcome
ParserReturns(op, a, out) ==
   /\ entries' = out.entries
   /\ type' = out.type
   /\ call' = [op |-> op, ret |-> out.ret, args |-> a]
   /\ steps' = out.steps
   /\ had_entries' = (Len(entries) > 0)
   /\ dangling' = IF out.reset THEN out.dangling ELSE dangling
   /\ UNCHANGED <<info_files, aborted, core_list_cached, list_frees>>

core_updater_list_parse_network_data ==
   /\ ~aborted
   /\ \E a \in NetworkCalls :
         \E out \in parse_network_data(entries, type, a, info_files) :
            \/ ParserReturns("parse_network_data", a, out)
            \/ out.reset /\ DoubleFreeAborts("parse_network_data", reset_frees(entries))

core_updater_list_parse_pfd_data ==
   /\ ~aborted
   /\ \E a \in PfdCalls : \E uninit \in StackGarbageOf(a) :
         \E out \in parse_pfd_data(entries, type, a, info_files, uninit) :
            \/ ParserReturns("parse_pfd_data", a, out)
            \/ out.reset /\ DoubleFreeAborts("parse_pfd_data", reset_frees(entries))

Next ==
   \/ core_updater_list_reset
   \/ core_updater_list_parse_network_data
   \/ core_updater_list_parse_pfd_data

Spec == Init /\ [][Next]_vars

(***************************************************************************)
(* Vocabulary of the properties.                                           *)
(***************************************************************************)
IsReal(e) == ~e.is_manufacturer_header /\ ~e.is_console_header

RealIndices(list) == {i \in 1..Len(list) : IsReal(list[i])}

RealCount(list) == Cardinality(RealIndices(list))

AfterNetworkParse == call.op = "parse_network_data"

AfterPfdParse == call.op = "parse_pfd_data"

AfterParse == AfterNetworkParse \/ AfterPfdParse

\* the maximal runs of characters other than sep, in order
RunStarts(s, sep) ==
   {i \in 1..Len(s) : CharAt(s, i) # sep /\ (i = 1 \/ CharAt(s, i - 1) = sep)}

RunEnd(s, sep, b) ==
   CHOOSE e \in b..Len(s) :
      /\ \A j \in b..e : CharAt(s, j) # sep
      /\ (e = Len(s) \/ CharAt(s, e + 1) = sep)

Fields(s, sep) ==
   [k \in 1..Cardinality(RunStarts(s, sep)) |->
      LET b == CHOOSE x \in RunStarts(s, sep) :
                  Cardinality({y \in RunStarts(s, sep) : y < x}) = k - 1
      IN  SubSeq(s, b, RunEnd(s, sep, b))]

\* the bytes a build-server call hands over, and its records
InputText(a) == IF string_is_empty(a.data) \/ a.len < 1 THEN "" ELSE SubSeq(a.data, 1, a.len)

RecordLines(a) == Fields(InputText(a), "\n")

HasNewline(a) == \E i \in 1..Len(InputText(a)) : CharAt(InputText(a), i) = "\n"

\* a record with three fields, a date of three components and a checksum
\* that is not zero; further fields and repeated separators are ignored
WellFormed(line) ==
   LET f == Fields(line, " ")
   IN  /\ Len(f) >= 3
       /\ Len(Fields(f[1], "-")) >= 3
       /\ string_hex_to_unsigned(f[2]) # U32Zero

RecordFilename(line) == Fields(line, " ")[3]

RecordCrc(line) == string_hex_to_unsigned(Fields(line, " ")[2])

RecordDate(line) ==
   LET d == Fields(Fields(line, " ")[1], "-")
   IN  [year |-> string_to_unsigned(d[1]), month |-> string_to_unsigned(d[2]),
        day |-> string_to_unsigned(d[3])]

\* the records that are well formed and repeat no earlier well-formed
\* record's file name
FirstWellFormed(lines) ==
   {i \in 1..Len(lines) :
       /\ WellFormed(lines[i])
       /\ \A j \in 1..(i - 1) :
             WellFormed(lines[j]) => RecordFilename(lines[j]) # RecordFilename(lines[i])}

KeyOf(e) == [remote_filename |-> e.remote_filename, crc |-> e.crc, date |-> e.date]

ValidDirs(a) ==
   /\ ~string_is_empty(a.path_dir_libretro)
   /\ ~string_is_empty(a.path_libretro_info)

ValidNetworkDirs(a) == ValidDirs(a) /\ ~string_is_empty(a.network_buildbot_url)

\* the list as it was before record k of the last parse was processed
StepBefore(k) == IF k = 1 THEN <<>> ELSE steps[k - 1]

Filenames(list) == {list[i].remote_filename : i \in 1..Len(list)}

(***************************************************************************)
(* C1                                                                      *)
(***************************************************************************)
\* C1: after core_updater_list_parse_network_data on an input with at least
\* one newline (directories and URL given), the real entries of the list
\* are exactly the first occurrences of the well-formed records, one entry
\* each, with the checksum and the date of their line: malformed lines add
\* nothing and stop nothing.
C1_RealEntriesAreWellFormedRecords ==
   (AfterNetworkParse /\ HasNewline(call.args) /\ ValidNetworkDirs(call.args)) =>
      LET lines == RecordLines(call.args)
          first == FirstWellFormed(lines)
      IN  /\ {KeyOf(entries[i]) : i \in RealIndices(entries)} =
                {[remote_filename |-> RecordFilename(lines[i]),
                  crc             |-> RecordCrc(lines[i]),
                  date            |-> RecordDate(lines[i])] : i \in first}
          /\ RealCount(entries) = Cardinality(first)
          /\ \A i \in RealIndices(entries) : entries[i].crc # U32Zero

\* a malformed line was followed by a well-formed one, which was added
C1_Witness ==
   /\ AfterNetworkParse /\ HasNewline(call.args) /\ ValidNetworkDirs(call.args)
   /\ LET lines == RecordLines(call.args)
      IN  \E i, j \in 1..Len(lines) :
             /\ i < j /\ ~WellFormed(lines[i]) /\ WellFormed(lines[j])
             /\ RecordFilename(lines[j]) \in Filenames(entries)

(***************************************************************************)
(* C2                                                                      *)
(***************************************************************************)
\* C2: in every reachable state no two real entries of the list have the
\* same remote_filename.
C2_RealFilenamesUnique ==
   \A i, j \in RealIndices(entries) :
      i # j => entries[i].remote_filename # entries[j].remote_filename

\* the last listing named a file twice and the file is in the list
C2_Witness ==
   /\ AfterPfdParse /\ call.ret
   /\ \E i, j \in 1..Len(call.args.pfd_cores.elems) :
         /\ i < j
         /\ call.args.pfd_cores.elems[i] = call.args.pfd_cores.elems[j]
         /\ call.args.pfd_cores.elems[i] \in Filenames(entries)

(***************************************************************************)
(* C3                                                                      *)
(***************************************************************************)
\* the file name record k of the last parse carries, NULL if it has none
StepFilename(k) ==
   IF AfterPfdParse THEN call.args.pfd_cores.elems[k]
   ELSE LET f == Fields(RecordLines(call.args)[k], " ")
        IN  IF Len(f) >= 3 THEN f[3] ELSE NULL

\* record k names a file that an earlier record of the same parse added
RepeatsEarlier(k) == StepFilename(k) \in Filenames(StepBefore(k))

\* C3: within one parse, a record whose file name equals that of a record
\* already added leaves the list as it was (same count, same entries), the
\* stored entry keeps the date and checksum of the first occurrence up to
\* the end of the parse, and the parse does not fail.
C3_DuplicateRecordIsDropped ==
   AfterParse =>
      \A k \in 1..Len(steps) :
         RepeatsEarlier(k) =>
            /\ Len(steps[k]) = Len(StepBefore(k))
            /\ steps[k] = StepBefore(k)
            /\ call.ret
            /\ \E i \in 1..Len(StepBefore(k)), j \in RealIndices(entries) :
                  /\ StepBefore(k)[i].remote_filename = StepFilename(k)
                  /\ KeyOf(entries[j]) = KeyOf(StepBefore(k)[i])

\* a build-server record repeated a file name with another checksum
C3_Witness ==
   /\ AfterNetworkParse
   /\ \E k \in 1..Len(steps) :
         /\ RepeatsEarlier(k)
         /\ WellFormed(RecordLines(call.args)[k])
         /\ \A j \in RealIndices(entries) :
               entries[j].crc # RecordCrc(RecordLines(call.args)[k])

(***************************************************************************)
(* C4                                                                      *)
(***************************************************************************)
Max(S) == CHOOSE x \in S : \A y \in S : y <= x

\* index of the nearest manufacturer (console) header above entry i, else 0
ManufacturerHeaderAbove(list, i) ==
   Max({0} \cup {j \in 1..(i - 1) : list[j].is_manufacturer_header})

ConsoleHeaderAbove(list, i) ==
   Max({0} \cup {j \in 1..(i - 1) : list[j].is_console_header})

\* the texts a console header of the given model can carry
ConsoleHeaderTexts(console_model) ==
   {"--- " \o console_model \o " ---"} \cup
   {"--- " \o console_model \o " (" \o IntToStr(core_metadata_wizmodl_db[r].release_year)
       \o ") ---" : r \in 1..Len(core_metadata_wizmodl_db)}

\* each real entry stands under the manufacturer header of its own
\* manufacturer and, below that header, under a console header of its own
\* console model; the list opens with a manufacturer header
HeaderInjected(list) ==
   /\ Len(list) > 0 => list[1].is_manufacturer_header
   /\ \A i \in RealIndices(list) :
         LET meta == get_core_metadata_wizmodl(list[i].display_name)
             m    == ManufacturerHeaderAbove(list, i)
             c    == ConsoleHeaderAbove(list, i)
         IN  /\ m # 0
             /\ list[m].display_name = "=== " \o meta.manufacturer \o " ==="
             /\ c > m
             /\ list[c].display_name \in ConsoleHeaderTexts(meta.console_model)

\* C4: after every successful parse (build-server or platform-delivery, one
\* real entry or more) the list is header-injected, and in particular its
\* first entry is a manufacturer header.
C4_SuccessfulParseIsHeaderInjected ==
   (AfterParse /\ call.ret) => HeaderInjected(entries)

\* what the code does establish: the headers are there once the parse
\* collected two entries or more
C4_TwoOrMoreAreHeaderInjected ==
   (AfterParse /\ call.ret /\ RealCount(entries) >= 2) => HeaderInjected(entries)

(***************************************************************************)
(* C5                                                                      *)
(***************************************************************************)
Occurrences(seq, x) == Cardinality({i \in 1..Len(seq) : seq[i] = x})

IsPermutation(s1, s2) ==
   /\ Len(s1) = Len(s2)
   /\ \A i \in 1..Len(s1) : Occurrences(s1, s1[i]) = Occurrences(s2, s1[i])

\* no two records of the listing carry the same file name
NoDuplicateFilename(lines) ==
   \A i, j \in 1..Len(lines) :
      (i # j /\ Len(Fields(lines[i], " ")) >= 3 /\ Len(Fields(lines[j], " ")) >= 3)
         => RecordFilename(lines[i]) # RecordFilename(lines[j])

\* two successful build-server parses in a row whose listings are
\* permutations of each other, with the same directories and URL
PermutedParses ==
   /\ AfterNetworkParse /\ call.ret
   /\ call'.op = "parse_network_data" /\ call'.ret
   /\ call'.args.path_dir_libretro = call.args.path_dir_libretro
   /\ call'.args.path_libretro_info = call.args.path_libretro_info
   /\ call'.args.network_buildbot_url = call.args.network_buildbot_url
   /\ info_files' = info_files
   /\ NoDuplicateFilename(RecordLines(call.args))
   /\ IsPermutation(RecordLines(call.args), RecordLines(call'.args))

\* C5: the final list is independent of the order of the input lines: two
\* build-server listings that are permutations of each other and name no
\* file twice, parsed with the same directories, URL and metadata provider,
\* give the same sequence of headers and real entries.
C5_ListIndependentOfLineOrder ==
   [][PermutedParses => entries' = entries]_vars

(***************************************************************************)
(* C6                                                                      *)
(***************************************************************************)
\* C6: whenever a parser returns failure, for any of the fatal causes (empty
\* raw input or length 0, an empty file name sequence, zero newlines, zero
\* resulting entries), the list afterwards has size 0 and type unknown,
\* also when it held entries from an earlier successful parse.
C6_FailedParseLeavesListEmpty ==
   (AfterParse /\ ~call.ret) =>
      (Len(entries) = 0 /\ type = CORE_UPDATER_LIST_TYPE_UNKNOWN)

(***************************************************************************)
(* C7                                                                      *)
(***************************************************************************)
\* the arguments of the last parse passed the parser's sanity check
SanityPassed ==
   IF AfterNetworkParse
   THEN ~string_is_empty(call.args.data) /\ call.args.len >= 1
   ELSE ~call.args.pfd_cores.is_null /\ Len(call.args.pfd_cores.elems) >= 1

\* C7: a parse whose arguments pass validation returns success exactly when
\* the list holds at least one entry after all records were processed, and
\* on success the list type is the parser's source kind: build-server after
\* core_updater_list_parse_network_data, platform-delivery after
\* core_updater_list_parse_pfd_data.
C7_SuccessIffEntriesAndTypeIsSource ==
   (AfterParse /\ SanityPassed) =>
      /\ call.ret <=> Len(LastOr(steps, <<>>)) >= 1
      /\ call.ret <=> RealCount(entries) >= 1
      /\ call.ret =>
            type = (IF AfterNetworkParse THEN CORE_UPDATER_LIST_TYPE_BUILDBOT
                    ELSE CORE_UPDATER_LIST_TYPE_PFD)

\* a platform-delivery parse that skipped a record succeeded
C7_Witness ==
   /\ AfterPfdParse /\ SanityPassed /\ call.ret
   /\ type = CORE_UPDATER_LIST_TYPE_PFD
   /\ \E k \in 1..Len(steps) : steps[k] = StepBefore(k)

(***************************************************************************)
(* C8                                                                      *)
(***************************************************************************)
\* the file names the input of the last parse carries
InputFilenames ==
   IF AfterPfdParse
   THEN {call.args.pfd_cores.elems[k] : k \in 1..Len(call.args.pfd_cores.elems)}
   ELSE {RecordFilename(RecordLines(call.args)[k]) :
            k \in {x \in 1..Len(RecordLines(call.args)) :
                      Len(Fields(RecordLines(call.args)[x], " ")) >= 3}}

\* the header texts that belong to the real entries of the list
HeaderTextsOf(list) ==
   UNION {{"=== " \o get_core_metadata_wizmodl(list[i].display_name).manufacturer \o " ==="}
          \cup ConsoleHeaderTexts(get_core_metadata_wizmodl(list[i].display_name).console_model) :
             i \in RealIndices(list)}

\* C8: the catalog is rebuilt from scratch on every parse: after a
\* successful parse on a list that already held entries, every real entry
\* has a file name of the latest input (and, from a build-server listing,
\* the checksum and date of one of its records), there are as many real
\* entries as the latest input added, and every header belongs to a real
\* entry of the list, so nothing of the earlier parse survives.
C8_ParseRebuildsFromScratch ==
   (AfterParse /\ call.ret /\ had_entries) =>
      /\ \A i \in RealIndices(entries) : entries[i].remote_filename \in InputFilenames
      /\ RealCount(entries) = Len(LastOr(steps, <<>>))
      /\ {KeyOf(entries[i]) : i \in RealIndices(entries)} =
            {KeyOf(LastOr(steps, <<>>)[i]) : i \in 1..Len(LastOr(steps, <<>>))}
      /\ AfterNetworkParse =>
            \A i \in RealIndices(entries) :
               \E k \in 1..Len(RecordLines(call.args)) :
                  /\ WellFormed(RecordLines(call.args)[k])
                  /\ entries[i].remote_filename = RecordFilename(RecordLines(call.args)[k])
                  /\ entries[i].crc = RecordCrc(RecordLines(call.args)[k])
                  /\ entries[i].date = RecordDate(RecordLines(call.args)[k])
      /\ \A i \in 1..Len(entries) :
            IsHeader(entries[i]) => entries[i].display_name \in HeaderTextsOf(entries)

\* the list held entries and the latest parse succeeded on a listing that
\* names other files only
C8_Witness ==
   /\ AfterNetworkParse /\ call.ret /\ had_entries
   /\ Filenames(entries) \cap {"snes9x_libretro.so", "snes9x_libretro_android.so"} = {}
   /\ "fceumm_libretro.so" \in Filenames(entries)

(***************************************************************************)
(* C9                                                                      *)
(***************************************************************************)
\* record k of the last build-server listing has a checksum field that
\* parses to 0
ZeroChecksum(k) ==
   /\ Len(Fields(RecordLines(call.args)[k], " ")) >= 3
   /\ RecordCrc(RecordLines(call.args)[k]) = U32Zero

\* C9: a build-server line whose checksum field parses as hexadecimal to 0
\* ("00000000", or a field that is not hexadecimal) adds no entry, so every
\* real entry of a list core_updater_list_parse_network_data produced has
\* a checksum other than 0.
C9_ZeroChecksumAddsNoEntry ==
   (AfterNetworkParse /\ SanityPassed) =>
      /\ \A k \in 1..Len(steps) : ZeroChecksum(k) => steps[k] = StepBefore(k)
      /\ \A i \in RealIndices(entries) : entries[i].crc # U32Zero

\* a listing with a record of checksum "nothex" was parsed successfully and
\* the file of that record is not in the list
C9_Witness ==
   /\ AfterNetworkParse /\ call.ret /\ ValidNetworkDirs(call.args)
   /\ \E k \in 1..Len(steps) :
         /\ ZeroChecksum(k)
         /\ Fields(RecordLines(call.args)[k], " ")[2] = "nothex"
         /\ Len(Fields(Fields(RecordLines(call.args)[k], " ")[1], "-")) >= 3
         /\ RecordFilename(RecordLines(call.args)[k]) \notin Filenames(entries)

(***************************************************************************)
(* C10                                                                     *)
(***************************************************************************)
\* C10: core_updater_list_parse_network_data on a non-empty input without a
\* newline character ("nonewline", or one well-formed record without its
\* newline) returns failure, and afterwards the list has size 0 and type
\* unknown.
C10_NoNewlineFails ==
   (AfterNetworkParse /\ SanityPassed /\ ~HasNewline(call.args)) =>
      /\ ~call.ret
      /\ Len(entries) = 0
      /\ type = CORE_UPDATER_LIST_TYPE_UNKNOWN

\* one well-formed record without its newline was handed to a list that
\* held entries
C10_Witness ==
   /\ AfterNetworkParse /\ SanityPassed /\ ~HasNewline(call.args)
   /\ ValidNetworkDirs(call.args)
   /\ had_entries
   /\ WellFormed(InputText(call.args))
   /\ ~call.ret

(***************************************************************************)
(* C11                                                                     *)
(***************************************************************************)
C11Listing ==
   "2023-01-15 deadbeef snes9x_libretro.so\n2023-02-20 cafebabe fceumm_libretro.so\n"

\* the last operation parsed the listing of the example with its directories
C11Parsed ==
   /\ AfterNetworkParse
   /\ call.args.data = C11Listing /\ call.args.len = Len(C11Listing)
   /\ call.args.path_dir_libretro = "/cores"
   /\ call.args.path_libretro_info = "/info"
   /\ call.args.network_buildbot_url = "http://buildbot/"

\* index of the entry of the given file, 0 when the list has none
IndexOfFile(list, name) ==
   Max({0} \cup {i \in 1..Len(list) : list[i].remote_filename = name})

\* the NES entry precedes the SNES entry, exactly one "=== Nintendo ==="
\* header precedes both, each entry comes right after its own console header
C11Grouped(list) ==
   LET f == IndexOfFile(list, "fceumm_libretro.so")
       s == IndexOfFile(list, "snes9x_libretro.so")
       n == {i \in 1..Len(list) :
               list[i].is_manufacturer_header /\ list[i].display_name = "=== Nintendo ==="}
   IN  /\ f # 0 /\ s # 0 /\ f < s
       /\ Cardinality(n) = 1
       /\ \A i \in n : i < f
       /\ f > 1 /\ list[f - 1].is_console_header
       /\ list[f - 1].display_name \in
             ConsoleHeaderTexts(get_core_metadata_wizmodl(list[f].display_name).console_model)
       /\ list[s - 1].is_console_header
       /\ list[s - 1].display_name \in
             ConsoleHeaderTexts(get_core_metadata_wizmodl(list[s].display_name).console_model)

\* the metadata provider names the two cores "Snes9x" and "FCEUmm"
C11ProviderNamesCores ==
   /\ {"/info/snes9x_libretro.info", "/info/fceumm_libretro.info"} \subseteq DOMAIN info_files
   /\ info_files["/info/snes9x_libretro.info"].display_name = "Snes9x"
   /\ info_files["/info/fceumm_libretro.info"].display_name = "FCEUmm"

\* C11 as stated: parsing the two-line listing of the example yields a list
\* in which the fceumm entry precedes the snes9x entry, exactly one
\* "=== Nintendo ===" header precedes both and each entry is preceded by its
\* own console header, whatever the metadata provider returns.
C11_ExampleIsGroupedUnderNintendo ==
   C11Parsed => C11Grouped(entries)

\* C11, amended: when the metadata provider names the two cores "Snes9x" and
\* "FCEUmm", parsing the listing of the example yields exactly: the
\* Nintendo header, the NES console header, the fceumm entry, the SNES
\* console header, the snes9x entry.
C11_ExampleWithNamedCores ==
   (C11Parsed /\ C11ProviderNamesCores) =>
      /\ call.ret
      /\ C11Grouped(entries)
      /\ [i \in 1..Len(entries) |-> entries[i].display_name] =
            <<"=== Nintendo ===",
              "--- Nintendo Entertainment System (1983) ---", "FCEUmm",
              "--- Super Nintendo Entertainment System (1990) ---", "Snes9x">>
      /\ [i \in 1..Len(entries) |-> entries[i].remote_filename] =
            <<"=== Nintendo ===",
              "--- Nintendo Entertainment System (1983) ---", "fceumm_libretro.so",
              "--- Super Nintendo Entertainment System (1990) ---", "snes9x_libretro.so">>

\* the listing of the example was parsed with both cores named
C11_Witness ==
   C11Parsed /\ C11ProviderNamesCores /\ call.ret /\ Len(entries) = 5

(***************************************************************************)
(* C12: the grouping sort on its own.                                      *)
(***************************************************************************)
\* the sets of outcomes of the explored platform-delivery parses
PfdOutcomeSets ==
   {r.outs : r \in PfdRebuilt}

\* the header-free lists the entry builders produce from the explored calls
SortInputs ==
   {LastOr(o.steps, <<>>) :
       o \in UNION ({NetworkRebuilt[a][f] : a \in NetworkCalls, f \in InfoDirs}
                    \cup PfdOutcomeSets)}

SortInit ==
   /\ entries \in SortInputs
   /\ type = CORE_UPDATER_LIST_TYPE_UNKNOWN
   /\ info_files = InfoMissing
   /\ call = [op |-> "init", ret |-> TRUE, args |-> NoArgs]
   /\ steps = <<>>
   /\ had_entries = FALSE
   /\ dangling = {}
   /\ aborted = FALSE
   /\ core_list_cached = NoList
   /\ list_frees = <<>>

\* core_updater_list_qsort_wizmodl on the list, with the allocation that
\* fails in it; steps keeps the list the headers were removed from, if they
\* were
GroupingSort ==
   /\ ~aborted
   /\ call.op \in {"init", "strip_headers"}
   /\ \E alloc \in AllocFailures :
         \/ /\ \E s \in core_updater_list_qsort_wizmodl(entries, alloc) : entries' = s
            /\ call' = [op |-> "qsort_wizmodl", ret |-> TRUE, args |-> [alloc |-> alloc, list |-> entries]]
            /\ dangling' = LicenseLists(entries') \cap (dangling \cup qsort_wizmodl_frees(entries, alloc))
            /\ UNCHANGED <<type, info_files, steps, had_entries, aborted, core_list_cached, list_frees>>
         \/ DoubleFreeAborts("qsort_wizmodl", qsort_wizmodl_frees(entries, alloc))

\* the header entries are removed from a list sorted without a failure
StripHeaders ==
   /\ ~aborted
   /\ call.op = "qsort_wizmodl" /\ steps = <<>> /\ call.args.alloc = "none"
   /\ entries' = SelectSeq(entries, IsReal)
   /\ steps' = <<entries>>
   /\ call' = [op |-> "strip_headers", ret |-> TRUE, args |-> NoArgs]
   /\ UNCHANGED <<type, info_files, had_entries, dangling, aborted, core_list_cached, list_frees>>

SortNext == GroupingSort \/ StripHeaders

SortSpec == SortInit /\ [][SortNext]_vars

\* C12: the grouping sort is idempotent: a list that was sorted and
\* header-injected, then stripped of its headers and sorted and
\* header-injected again, is identical, entry for entry and field for
\* field, to the list before the headers were removed.
C12_GroupingSortIdempotent ==
   (call.op = "qsort_wizmodl" /\ steps # <<>> /\ call.args.alloc = "none")
      => entries = steps[1]

(***************************************************************************)
(* C13                                                                     *)
(***************************************************************************)
BothFlags(e) == e.is_manufacturer_header /\ e.is_console_header

NoFlag(e) == ~e.is_manufacturer_header /\ ~e.is_console_header

\* C13: in every reachable state no entry has is_manufacturer_header and
\* is_console_header both true; the entries the entry builders append and
\* the real entries header injection copies have both flags false.
C13_HeaderFlagsExclusive ==
   /\ \A i \in 1..Len(entries) : ~BothFlags(entries[i])
   /\ \A k \in 1..Len(steps) : \A i \in 1..Len(steps[k]) : NoFlag(steps[k][i])
   /\ \A i \in 1..Len(entries) :
         entries[i].remote_filename \in Filenames(LastOr(steps, <<>>))
            => NoFlag(entries[i])

\* the list holds a manufacturer header, a console header and a copied entry
C13_Witness ==
   /\ AfterParse /\ call.ret
   /\ \E i, j, k \in 1..Len(entries) :
         /\ entries[i].is_manufacturer_header /\ ~entries[i].is_console_header
         /\ entries[j].is_console_header /\ ~entries[j].is_manufacturer_header
         /\ entries[k].remote_filename \in Filenames(LastOr(steps, <<>>))

(***************************************************************************)
(* C14                                                                     *)
(***************************************************************************)
\* core_updater_list_reset was called last: it returned, or the allocator
\* ended the process inside it
ResetCalled ==
   \/ call.op = "reset"
   \/ call.op = "abort" /\ call.args.in = "reset"

\* C14: core_updater_list_reset leaves the list with size 0 and type
\* unknown whatever its previous contents, and frees nothing a second time.
C14_ResetLeavesEmptyUnknownList ==
   ResetCalled =>
      /\ ~aborted
      /\ Len(entries) = 0
      /\ type = CORE_UPDATER_LIST_TYPE_UNKNOWN

\* what the code does establish: a reset that returns leaves size 0 and
\* type unknown, and nothing of the list is left to free
C14_ReturnedResetLeavesEmptyUnknownList ==
   call.op = "reset" =>
      /\ Len(entries) = 0
      /\ type = CORE_UPDATER_LIST_TYPE_UNKNOWN
      /\ reset_frees(entries) = {}
      /\ dangling = {}

\* a reset right after a reset changes nothing
C14_SecondResetChangesNothing ==
   [][(call.op = "reset" /\ call'.op = "reset")
         => (entries' = entries /\ type' = type /\ dangling' = dangling)]_vars

(***************************************************************************)
(* C15                                                                     *)
(***************************************************************************)
\* what the parsers leave behind, over all explored calls
ParserOutcomes ==
   UNION ({NetworkRebuilt[a][f] : a \in NetworkCalls, f \in InfoDirs}
          \cup PfdOutcomeSets)

\* the names looked up: none, the empty name, file names of the listings in
\* their own and in another case, a part of a file name, a header text
LookupNames ==
   {NULL, "", "snes9x_libretro.so", "SNES9X_LIBRETRO.SO", "fceumm_libretro.so",
    "mgba_libretro.so.zip", "snes9x", "=== Nintendo ==="}

\* a list as a parse left it
LookupInit ==
   /\ \E o \in ParserOutcomes :
         entries = o.entries /\ type = o.type /\ dangling = o.dangling
   /\ info_files = InfoMissing
   /\ call = [op |-> "init", ret |-> TRUE, args |-> NoArgs]
   /\ steps = <<>>
   /\ had_entries = FALSE
   /\ aborted = FALSE
   /\ core_list_cached = NoList
   /\ list_frees = <<>>

\* core_updater_list_get_filename(core_list, remote_filename, &entry); the
\* call records the name and the index (from 1) of the entry handed back
GetFilename ==
   \E name \in LookupNames :
      LET returns(idx) ==
             call' = [op |-> "get_filename", ret |-> (idx # 0),
                      args |-> [remote_filename |-> name, entry |-> idx]]
      IN  /\ returns(core_updater_list_get_filename(entries, name))
          /\ UNCHANGED <<entries, type, info_files, steps, had_entries, dangling, aborted, core_list_cached, list_frees>>

LookupNext == GetFilename

LookupSpec == LookupInit /\ [][LookupNext]_vars

\* the indices of the entries whose remote_filename is the name, character
\* for character
ExactMatches(list, name) ==
   {i \in 1..Len(list) : list[i].remote_filename = name}

\* C15: core_updater_list_get_filename(list, name) succeeds exactly when
\* some entry's remote_filename equals name character for character, then
\* hands back the lowest-index such entry; an empty or missing name always
\* misses; the call never changes the list.
C15_GetFilenameFindsFirstExactMatch ==
   [][call'.op = "get_filename" =>
         /\ entries' = entries /\ type' = type
         /\ IF call'.args.remote_filename \in {NULL, ""}
            THEN ~call'.ret
            ELSE /\ call'.ret <=> ExactMatches(entries, call'.args.remote_filename) # {}
                 /\ call'.ret =>
                       call'.args.entry = Min(ExactMatches(entries, call'.args.remote_filename))]_vars

\* a lookup found a real entry below the headers of an injected list
C15_Witness ==
   /\ call.op = "get_filename" /\ call.ret
   /\ call.args.entry > 2
   /\ entries[1].is_manufacturer_header
   /\ entries[call.args.entry].remote_filename = call.args.remote_filename

(***************************************************************************)
(* C16                                                                     *)
(***************************************************************************)
\* how many list objects core_updater_list_init may allocate in a run
MaxCachedLists == 3

\* core_updater_list_free on a list object: frees counts, per list object,
\* the calls of free on it; nothing happens for a NULL list
core_updater_list_free(frees, list) ==
   IF list = NoList THEN frees ELSE [frees EXCEPT ![list] = @ + 1]

\* core_updater_list_init_cached on the static pointer; malloc_ok tells
\* whether core_updater_list_init gets its memory
init_cached(cached, frees, malloc_ok) ==
   LET create(freed) ==
          IF malloc_ok
          THEN [ret |-> TRUE, cached |-> Len(freed) + 1, frees |-> Append(freed, 0)]
          ELSE [ret |-> FALSE, cached |-> NoList, frees |-> freed]
   IN  create(core_updater_list_free(frees, cached))

get_cached(cached) == IF cached # NoList THEN cached ELSE NoList

\* variant of core_updater_list_free_cached that leaves the pointer in place
free_cached_keeping_pointer(cached, frees) ==
   [cached |-> cached, frees |-> core_updater_list_free(frees, cached)]

\* core_updater_list_free_cached on the static pointer
free_cached(cached, frees) ==
   [cached |-> NoList, frees |-> core_updater_list_free(frees, cached)]

\* the entries and the type describe the cached list while there is one
core_updater_list_init_cached ==
   /\ ~aborted
   /\ Len(list_frees) < MaxCachedLists
   /\ \E malloc_ok \in BOOLEAN :
         LET returns(r) ==
                /\ core_list_cached' = r.cached
                /\ list_frees' = r.frees
                /\ call' = [op |-> "init_cached", ret |-> r.ret, args |-> [previous |-> core_list_cached]]
         IN  \/ /\ returns(init_cached(core_list_cached, list_frees, malloc_ok))
                /\ entries' = <<>>
                /\ type' = CORE_UPDATER_LIST_TYPE_UNKNOWN
                /\ steps' = <<>>
                /\ had_entries' = (Len(entries) > 0)
                /\ dangling' = {}
                /\ UNCHANGED <<info_files, aborted>>
             \/ DoubleFreeAborts("init_cached", reset_frees(entries))

core_updater_list_get_cached ==
   /\ ~aborted
   /\ call' = [op |-> "get_cached", ret |-> get_cached(core_list_cached), args |-> NoArgs]
   /\ UNCHANGED <<entries, type, info_files, steps, had_entries, dangling, aborted, core_list_cached, list_frees>>

core_updater_list_free_cached ==
   /\ ~aborted
   /\ LET returns(r) ==
              /\ core_list_cached' = r.cached
              /\ list_frees' = r.frees
              /\ call' = [op |-> "free_cached", ret |-> TRUE, args |-> [previous |-> core_list_cached]]
      IN  \/ /\ returns(free_cached(core_list_cached, list_frees))
             /\ entries' = <<>>
             /\ type' = CORE_UPDATER_LIST_TYPE_UNKNOWN
             /\ steps' = <<>>
             /\ had_entries' = (Len(entries) > 0)
             /\ dangling' = {}
             /\ UNCHANGED <<info_files, aborted>>
          \/ DoubleFreeAborts("free_cached", reset_frees(entries))

\* a platform-delivery parse into the list core_updater_list_get_cached
\* hands out
ParseCached ==
   /\ get_cached(core_list_cached) # NoList
   /\ core_updater_list_parse_pfd_data

CachedNext ==
   \/ core_updater_list_init_cached
   \/ core_updater_list_get_cached
   \/ core_updater_list_free_cached
   \/ ParseCached

CachedSpec == Init /\ [][CachedNext]_vars

\* the list objects that were created and not freed
LiveLists == {id \in 1..Len(list_frees) : list_frees[id] = 0}

\* C16: at most one cached list exists: core_updater_list_get_cached returns
\* none before the first core_updater_list_init_cached and after a
\* core_updater_list_free_cached, and otherwise the list the most recent
\* init_cached created, which is empty with type unknown at creation;
\* init_cached destroys the previously cached list exactly once and
\* free_cached called twice in a row frees nothing twice.
C16_SingleCachedList ==
   /\ LiveLists = IF core_list_cached = NoList THEN {} ELSE {core_list_cached}
   /\ core_list_cached # NoList => core_list_cached = Len(list_frees)
   /\ \A id \in 1..Len(list_frees) : list_frees[id] <= 1
   /\ call.op = "get_cached" => call.ret = core_list_cached
   /\ call.op = "free_cached" => core_list_cached = NoList
   /\ call.op = "init_cached" =>
         /\ Len(entries) = 0 /\ type = CORE_UPDATER_LIST_TYPE_UNKNOWN
         /\ call.ret <=> core_list_cached # NoList
         /\ call.ret => core_list_cached = Len(list_frees)
         /\ call.args.previous # NoList => list_frees[call.args.previous] = 1

\* a second list was created over a first one that held entries, handed
\* out, and freed
C16_Witness ==
   /\ call.op = "free_cached" /\ call.args.previous = 2
   /\ had_entries
   /\ list_frees = <<1, 1>>

(***************************************************************************)
(* C17                                                                     *)
(***************************************************************************)
\* C17: every real entry added by the platform-delivery parser has
\* remote_core_path equal to the empty string (checked after the parses
\* that succeed, on the entries as built and on the final list).
C17_PfdEntriesHaveEmptyRemoteCorePath ==
   (AfterPfdParse /\ call.ret) =>
      /\ \A i \in RealIndices(entries) : entries[i].remote_core_path = ""
      /\ \A k \in 1..Len(steps) : \A i \in 1..Len(steps[k]) :
            steps[k][i].remote_core_path = ""

\* what the code does establish for the build-server parser: the
\* remote_core_path of each real entry is the percent-encoded join of the
\* base URL and the file name, and is not empty
C17_BuildbotEntriesCarryEncodedUrl ==
   (AfterNetworkParse /\ call.ret) =>
      \A i \in RealIndices(entries) :
         /\ entries[i].remote_core_path # ""
         /\ entries[i].remote_core_path =
               net_http_urlencode_full(
                  fill_pathname_join_special(call.args.network_buildbot_url,
                                             entries[i].remote_filename))

(***************************************************************************)
(* C18                                                                     *)
(***************************************************************************)
\* the entries as the entry builders appended them during the last parse,
\* before the sort
BuiltEntries == UNION {{steps[k][i] : i \in 1..Len(steps[k])} : k \in 1..Len(steps)}

\* the records the provider returns for the entry's info file
RecordsOf(e) == core_info_get_core_updater_info(info_files, e.local_info_path)

\* display name and experimental flag fall back to the file name and true
NamedAfterFile(e) == e.display_name = e.remote_filename /\ e.is_experimental

\* description and licence list are those of the record
CopiesDescriptionAndLicenses(e, r) ==
   /\ e.description = IF string_is_empty(r.description) THEN "" ELSE r.description
   /\ e.licenses_list = IF string_is_empty(r.licenses) THEN NULL_LIST
                        ELSE string_split(r.licenses, "|")

\* C18 as stated: with no record, or with a record whose display name is
\* blank, the built entry has display_name equal to the file name,
\* is_experimental true and description equal to the empty string, whatever
\* other fields the record carries; with a record with a non-blank display
\* name the entry copies its display name, description, experimental flag
\* and licence list.
C18_BlankNameGivesEmptyDescription ==
   AfterParse =>
      \A e \in BuiltEntries :
         IF \A r \in RecordsOf(e) : string_is_empty(r.display_name)
         THEN NamedAfterFile(e) /\ e.description = ""
         ELSE \A r \in RecordsOf(e) :
                 /\ e.display_name = r.display_name
                 /\ e.is_experimental = r.is_experimental
                 /\ CopiesDescriptionAndLicenses(e, r)

\* C18, amended: with no record the built entry has display_name equal to
\* the file name, is_experimental true, description empty and no licence
\* list; with a record it takes the record's description and licence list
\* whatever the record's display name, and the record's display name and
\* experimental flag when that display name is not blank, the file name and
\* true when it is.
C18_DescriptionCopiedFromAnyRecord ==
   AfterParse =>
      \A e \in BuiltEntries :
         IF RecordsOf(e) = {}
         THEN NamedAfterFile(e) /\ e.description = "" /\ e.licenses_list = NULL_LIST
         ELSE \A r \in RecordsOf(e) :
                 /\ CopiesDescriptionAndLicenses(e, r)
                 /\ IF string_is_empty(r.display_name)
                    THEN NamedAfterFile(e)
                    ELSE /\ e.display_name = r.display_name
                         /\ e.is_experimental = r.is_experimental

\* one parse built an entry from a record without a display name but with
\* a description and licences, and an entry from a record with a name
C18_Witness ==
   /\ AfterParse
   /\ \E e \in BuiltEntries : \E r \in RecordsOf(e) :
         /\ string_is_empty(r.display_name)
         /\ e.description # "" /\ ~e.licenses_list.is_null
   /\ \E e \in BuiltEntries : \E r \in RecordsOf(e) :
         ~string_is_empty(r.display_name) /\ e.display_name = r.display_name

(***************************************************************************)
(* C19                                                                     *)
(***************************************************************************)
\* the entries of the list that point to the licence list
OwnersOf(list, licenses) ==
   {i \in 1..Len(list) : licenses \in core_updater_list_free_entry(list[i])}

\* C19: after header injection replaced the array, every licence list an
\* entry of the list points to is live (it was not freed with the original
\* entries) and has exactly one owner, so that a later reset frees each
\* licence list once: nothing is freed twice.
C19_LicenseListsLiveWithOneOwner ==
   /\ dangling = {}
   /\ \A l \in LicenseLists(entries) : Cardinality(OwnersOf(entries, l)) = 1
   /\ ~aborted

\* what the code does establish: each licence list has one owner in the list
C19_LicenseListsHaveOneOwner ==
   \A l \in LicenseLists(entries) : Cardinality(OwnersOf(entries, l)) = 1

(***************************************************************************)
(* C20                                                                     *)
(***************************************************************************)
\* the sort ran with an allocation of the header injection failing
SortedWithFailure(alloc) ==
   /\ call.op = "qsort_wizmodl"
   /\ call.args.alloc = alloc
   /\ Len(call.args.list) >= 2

\* the list holds the entries it held before the sort and no header
KeepsOriginalEntries ==
   /\ \A i \in 1..Len(entries) : IsReal(entries[i])
   /\ IsPermutation(entries, call.args.list)

\* C20: if an allocation fails during the header-injection rebuild (the
\* reservation of the new array, a manufacturer header or a console
\* header), the list keeps its original header-free entries: it is never
\* replaced by a sequence that lacks a header of the full rebuild.
C20_FailedAllocationKeepsOriginal ==
   (\E alloc \in AllocFailures \ {"none"} : SortedWithFailure(alloc))
      => KeepsOriginalEntries

\* what the code does establish: the list is kept when the reservation of
\* the new array fails
C20_FailedReservationKeepsOriginal ==
   SortedWithFailure("reserve") => KeepsOriginalEntries

\* when a header allocation fails the array is replaced all the same, with
\* every real entry and without that header
C20_FailedHeaderIsLeftOut ==
   (SortedWithFailure("manufacturer_header") /\ RealCount(call.args.list) >= 2) =>
      /\ ~entries[1].is_manufacturer_header
      /\ IsPermutation(SelectSeq(entries, IsReal), call.args.list)

(***************************************************************************)
(* C21                                                                     *)
(***************************************************************************)
\* a list as a parse left it, or as it stood before the sort
CompareInit ==
   /\ entries \in SortInputs \cup {o.entries : o \in ParserOutcomes}
   /\ type = CORE_UPDATER_LIST_TYPE_UNKNOWN
   /\ info_files = InfoMissing
   /\ call = [op |-> "init", ret |-> TRUE, args |-> NoArgs]
   /\ steps = <<>>
   /\ had_entries = FALSE
   /\ dangling = {}
   /\ aborted = FALSE
   /\ core_list_cached = NoList
   /\ list_frees = <<>>

\* core_updater_list_qsort_func_wizmodl on the entries at three indices of
\* the list (from 1), in the pairs qsort may hand to it
Compare ==
   /\ call.op = "init"
   /\ \E a, b, c \in 1..Len(entries) :
      /\ call' = [op |-> "qsort_func_wizmodl",
                  ret |-> [ab |-> core_updater_list_qsort_func_wizmodl(entries[a], entries[b]),
                           ba |-> core_updater_list_qsort_func_wizmodl(entries[b], entries[a]),
                           bc |-> core_updater_list_qsort_func_wizmodl(entries[b], entries[c]),
                           ac |-> core_updater_list_qsort_func_wizmodl(entries[a], entries[c])],
                  args |-> [a |-> a, b |-> b, c |-> c]]
      /\ UNCHANGED <<entries, type, info_files, steps, had_entries, dangling, aborted, core_list_cached, list_frees>>

CompareNext == Compare

CompareSpec == CompareInit /\ [][CompareNext]_vars

Sign(n) == IF n < 0 THEN -1 ELSE IF n > 0 THEN 1 ELSE 0

Compared == call.op = "qsort_func_wizmodl"

\* C21: core_updater_list_qsort_func_wizmodl is a total order over the
\* entries of a list: the sign of cmp(a,b) is the negation of the sign of
\* cmp(b,a), cmp(a,b) <= 0 and cmp(b,c) <= 0 imply cmp(a,c) <= 0, and two
\* real entries compare as equal only if they are the same entry.
C21_ComparatorIsTotalOrder ==
   Compared =>
      /\ Sign(call.ret.ab) = -Sign(call.ret.ba)
      /\ (call.ret.ab <= 0 /\ call.ret.bc <= 0) => call.ret.ac <= 0
      /\ (/\ IsReal(entries[call.args.a]) /\ IsReal(entries[call.args.b])
          /\ call.ret.ab = 0) => call.args.a = call.args.b

\* what the code does establish: the comparator is antisymmetric in sign
\* and transitive, and real entries it reports equal have display names
\* that are equal ignoring case
C21_ComparatorIsTotalPreorder ==
   Compared =>
      /\ Sign(call.ret.ab) = -Sign(call.ret.ba)
      /\ (call.ret.ab <= 0 /\ call.ret.bc <= 0) => call.ret.ac <= 0
      /\ (/\ IsReal(entries[call.args.a]) /\ IsReal(entries[call.args.b])
          /\ call.ret.ab = 0)
            => strcasecmp(entries[call.args.a].display_name,
                          entries[call.args.b].display_name) = 0

(***************************************************************************)
(* C22                                                                     *)
(***************************************************************************)
\* C22: in every state reachable by create, reset, build-server parse and
\* platform-delivery parse operations, successful or failing, a list whose
\* type is build-server or platform-delivery holds at least one entry;
\* equivalently, an empty list has type unknown.
C22_TypedListIsNotEmpty ==
   /\ type \in {CORE_UPDATER_LIST_TYPE_BUILDBOT, CORE_UPDATER_LIST_TYPE_PFD}
         => Len(entries) >= 1
   /\ Len(entries) = 0 => type = CORE_UPDATER_LIST_TYPE_UNKNOWN

\* a parse whose records were all rejected failed on a list that held
\* entries, and left it empty with type unknown
C22_Witness ==
   /\ AfterParse /\ ~call.ret
   /\ had_entries
   /\ Len(entries) = 0
   /\ type = CORE_UPDATER_LIST_TYPE_UNKNOWN

(***************************************************************************)
(* C23                                                                     *)
(***************************************************************************)
HeaderIndices(list) == {i \in 1..Len(list) : IsHeader(list[i])}

ManufacturerOf(e) == get_core_metadata_wizmodl(e.display_name).manufacturer

ConsoleModelOf(e) == get_core_metadata_wizmodl(e.display_name).console_model

\* the real entries of one manufacturer stand together and, among them, the
\* real entries of one console model stand together
GroupsContiguous(list) ==
   \A i, j, k \in RealIndices(list) :
      (i < j /\ j < k) =>
         /\ ManufacturerOf(list[i]) = ManufacturerOf(list[k])
               => ManufacturerOf(list[j]) = ManufacturerOf(list[i])
         /\ ConsoleModelOf(list[i]) = ConsoleModelOf(list[k])
               => ConsoleModelOf(list[j]) = ConsoleModelOf(list[i])

\* C23: after any successful parse no two header entries of the list carry
\* the same text, and the real entries of one manufacturer, and within it
\* of one console model, are contiguous.
C23_NoHeaderTextTwice ==
   (AfterParse /\ call.ret) =>
      /\ \A i, j \in HeaderIndices(entries) :
            i # j => entries[i].display_name # entries[j].display_name
      /\ GroupsContiguous(entries)

\* the records came in the order manufacturer, other manufacturer, first
\* manufacturer again, and the list has headers
C23_Witness ==
   /\ AfterParse /\ call.ret
   /\ HeaderIndices(entries) # {}
   /\ LET built == LastOr(steps, <<>>)
      IN  /\ Len(built) >= 3
          /\ ManufacturerOf(built[1]) = ManufacturerOf(built[3])
          /\ ManufacturerOf(built[1]) # ManufacturerOf(built[2])

(***************************************************************************)
(* C24                                                                     *)
(***************************************************************************)
\* the rows of the table but the trailing fallback row
PatternRows == 1..(Len(core_metadata_wizmodl_db) - 1)

\* what follows the pattern in the display names looked up
NameSuffixes == {"", " (Experimental)"}

MetadataInit ==
   /\ entries = <<>>
   /\ type = CORE_UPDATER_LIST_TYPE_UNKNOWN
   /\ info_files = InfoMissing
   /\ call = [op |-> "init", ret |-> TRUE, args |-> NoArgs]
   /\ steps = <<>>
   /\ had_entries = FALSE
   /\ dangling = {}
   /\ aborted = FALSE
   /\ core_list_cached = NoList
   /\ list_frees = <<>>

\* get_core_metadata_wizmodl on a display name that is, or starts with, the
\* pattern of a row
GetMetadata ==
   \E row \in PatternRows, suffix \in NameSuffixes :
      LET lookup(display_name) ==
             call' = [op |-> "get_core_metadata_wizmodl",
                      ret |-> get_core_metadata_wizmodl(display_name),
                      args |-> [row |-> row, display_name |-> display_name]]
      IN  /\ lookup(core_metadata_wizmodl_db[row].core_name \o suffix)
          /\ UNCHANGED <<entries, type, info_files, steps, had_entries, dangling, aborted, core_list_cached, list_frees>>

MetadataNext == GetMetadata

MetadataSpec == MetadataInit /\ [][MetadataNext]_vars

\* the lookup was made with exactly the pattern of the row
LookedUpOwnPattern ==
   /\ call.op = "get_core_metadata_wizmodl"
   /\ call.args.display_name = core_metadata_wizmodl_db[call.args.row].core_name

\* C24: get_core_metadata_wizmodl called with a display name equal to the
\* pattern of a non-fallback row returns a record with that row's
\* manufacturer and console model.
C24_PatternFindsOwnRow ==
   LookedUpOwnPattern =>
      /\ call.ret.manufacturer = core_metadata_wizmodl_db[call.args.row].manufacturer
      /\ call.ret.console_model = core_metadata_wizmodl_db[call.args.row].console_model

\* what the code does establish: the record is that of the first row whose
\* pattern occurs in the name, and it has the manufacturer of the row
C24_PatternFindsFirstContainedRow ==
   call.op = "get_core_metadata_wizmodl" =>
      /\ call.ret.manufacturer = core_metadata_wizmodl_db[call.args.row].manufacturer
      /\ \E first \in 1..call.args.row :
            /\ call.ret = core_metadata_wizmodl_db[first]
            /\ strstr(call.args.display_name, core_metadata_wizmodl_db[first].core_name)
            /\ \A r \in 1..(first - 1) :
                  ~strstr(call.args.display_name, core_metadata_wizmodl_db[r].core_name)
====
